---- MODULE Spec2Model ----
(***************************************************************************)
(* A model of the StacksOrbit generic auto-detector                        *)
(* (src/enhanced_auto_detector.py): contract discovery, categorisation,    *)
(* deployment ordering and the deployment-status reconciler; and of the    *)
(* programs that poll the chain: the dashboard (src/enhanced_dashboard.py) *)
(* and the deployment monitor (src/deployment_monitor.py).                 *)
(*                                                                         *)
(* Strings that the code inspects character by character (contract names   *)
(* and keywords) are sequences of one-character strings, so that           *)
(* lower-casing and substring search are computed, not assumed.            *)
(***************************************************************************)
EXTENDS Integers, Sequences, FiniteSets, TLC

VARIABLES
  call,              \* the last call of a pure helper: its arguments and its result
  project_root,      \* self.project_root
  cwd,               \* the process's working directory (Path.cwd())
  use_conxian_mode,  \* self.use_conxian_mode
  fs,                \* the file system: what each directory holds
  state,             \* self.state
  contract_cache,    \* self.contract_cache
  result,            \* what the last detect_and_analyze / handle_directory_change returned
  error,             \* the exception the last call of the detector let escape
  dashboard,         \* the EnhancedDashboard: is_running, current_data, metrics, config
  monitor,           \* the DeploymentMonitor: is_monitoring, deployment_history
  pc,                \* where each thread of the polling programs stands
  shown,             \* what the display routine has read in its current pass
  observed,          \* history: which poll wrote each field, what each accessor last fetched
  wait,              \* the locals of wait_for_transaction
  now                \* time.time(), in seconds

polling_vars == <<dashboard, monitor, pc, shown, observed, wait, now>>

vars ==
  <<call, project_root, cwd, use_conxian_mode, fs, state, contract_cache, result, error,
    dashboard, monitor, pc, shown, observed, wait, now>>

detector_vars ==
  <<project_root, cwd, use_conxian_mode, fs, state, contract_cache, result, error>>

-----------------------------------------------------------------------------
(* Strings *)

UpperCase ==
  <<"A","B","C","D","E","F","G","H","I","J","K","L","M",
    "N","O","P","Q","R","S","T","U","V","W","X","Y","Z">>

LowerCase ==
  <<"a","b","c","d","e","f","g","h","i","j","k","l","m",
    "n","o","p","q","r","s","t","u","v","w","x","y","z">>

\* str.lower() on one character
lower_char(c) ==
  IF \E i \in DOMAIN UpperCase : UpperCase[i] = c
  THEN LowerCase[CHOOSE i \in DOMAIN UpperCase : UpperCase[i] = c]
  ELSE c

\* str.lower()
lower(s) == [i \in DOMAIN s |-> lower_char(s[i])]

\* pattern in s  (substring test)
is_substring(pattern, s) ==
  \E i \in 0..(Len(s) - Len(pattern)) : SubSeq(s, i + 1, i + Len(pattern)) = pattern

-----------------------------------------------------------------------------
(* The keyword tables *)

\* The generic category table, in the order the dict literal defines it.
generic_categories ==
  <<
   [category |-> "traits", patterns |-> <<
      <<"t","r","a","i","t">>, <<"t","r","a","i","t","s">>,
      <<"i","n","t","e","r","f","a","c","e","s">>, <<"i","n","t","e","r","f","a","c","e">>,
      <<"s","i","p","-","0","0","9">>, <<"s","i","p","-","0","1","0">>,
      <<"s","i","p","-","0","1","3">>, <<"s","i","p","-","0","1","8">> >>],
   [category |-> "tokens", patterns |-> <<
      <<"t","o","k","e","n">>, <<"f","t">>, <<"n","f","t">>,
      <<"f","u","n","g","i","b","l","e">>, <<"n","o","n","-","f","u","n","g","i","b","l","e">>,
      <<"m","i","n","t">>, <<"b","u","r","n">>, <<"t","r","a","n","s","f","e","r">>,
      <<"b","a","l","a","n","c","e">>, <<"s","u","p","p","l","y">> >>],
   [category |-> "defi", patterns |-> <<
      <<"d","e","x">>, <<"s","w","a","p">>, <<"p","o","o","l">>,
      <<"l","i","q","u","i","d","i","t","y">>, <<"a","m","m">>, <<"r","o","u","t","e","r">>,
      <<"f","a","c","t","o","r","y">>, <<"p","a","i","r">>, <<"v","a","u","l","t">>,
      <<"s","t","a","k","i","n","g">>, <<"f","a","r","m","i","n","g">>, <<"y","i","e","l","d">>,
      <<"r","e","w","a","r","d","s">>, <<"g","o","v","e","r","n","a","n","c","e">> >>],
   [category |-> "oracle", patterns |-> <<
      <<"o","r","a","c","l","e">>, <<"p","r","i","c","e">>, <<"f","e","e","d">>,
      <<"a","g","g","r","e","g","a","t","o","r">>, <<"a","d","a","p","t","e","r">>,
      <<"b","t","c">>, <<"u","s","d">>, <<"e","t","h">>,
      <<"c","h","a","i","n","l","i","n","k">>, <<"p","y","t","h">> >>],
   [category |-> "dao", patterns |-> <<
      <<"d","a","o">>, <<"g","o","v","e","r","n","a","n","c","e">>,
      <<"p","r","o","p","o","s","a","l">>, <<"v","o","t","e">>, <<"v","o","t","i","n","g">>,
      <<"t","i","m","e","l","o","c","k">>, <<"u","p","g","r","a","d","e">>,
      <<"a","d","m","i","n">>, <<"o","w","n","e","r">>,
      <<"c","o","n","t","r","o","l","l","e","r">> >>],
   [category |-> "security", patterns |-> <<
      <<"a","u","t","h">>, <<"a","c","c","e","s","s">>, <<"c","o","n","t","r","o","l">>,
      <<"c","i","r","c","u","i","t">>, <<"b","r","e","a","k","e","r">>, <<"p","a","u","s","e">>,
      <<"p","a","u","s","a","b","l","e">>, <<"r","a","t","e">>, <<"l","i","m","i","t">>,
      <<"e","m","e","r","g","e","n","c","y">> >>],
   [category |-> "utilities", patterns |-> <<
      <<"u","t","i","l","s">>, <<"u","t","i","l">>, <<"h","e","l","p","e","r">>,
      <<"l","i","b","r","a","r","y">>, <<"l","i","b">>, <<"m","a","t","h">>,
      <<"s","t","r","i","n","g">>, <<"e","n","c","o","d","i","n","g">>,
      <<"c","r","y","p","t","o">>, <<"h","a","s","h">> >>],
   [category |-> "testing", patterns |-> <<
      <<"t","e","s","t">>, <<"m","o","c","k">>, <<"f","a","k","e">>,
      <<"s","i","m","u","l","a","t","o","r">>, <<"d","e","b","u","g">> >>]
  >>

\* The categories of Conxian mode, in the order categories.update() appends them
\* (every key is new, so each goes to the end of the dict).
conxian_categories ==
  <<
   [category |-> "conxian_base", patterns |-> <<
      <<"a","l","l","-","t","r","a","i","t","s">>,
      <<"u","t","i","l","s","-","e","n","c","o","d","i","n","g">>,
      <<"u","t","i","l","s","-","u","t","i","l","s">>,
      <<"l","i","b","-","e","r","r","o","r","-","c","o","d","e","s">>,
      <<"m","a","t","h","-","l","i","b","-","a","d","v","a","n","c","e","d">>,
      <<"f","i","x","e","d","-","p","o","i","n","t","-","m","a","t","h">>,
      <<"s","t","a","n","d","a","r","d","-","c","o","n","s","t","a","n","t","s">> >>],
   [category |-> "conxian_tokens", patterns |-> <<
      <<"c","x","d","-","t","o","k","e","n">>, <<"c","x","l","p","-","t","o","k","e","n">>,
      <<"c","x","v","g","-","t","o","k","e","n">>, <<"c","x","t","r","-","t","o","k","e","n">>,
      <<"c","x","s","-","t","o","k","e","n">>,
      <<"g","o","v","e","r","n","a","n","c","e","-","t","o","k","e","n">>,
      <<"t","o","k","e","n","-","s","y","s","t","e","m","-","c","o","o","r","d","i","n","a","t","o","r">>,
      <<"t","o","k","e","n","-","e","m","i","s","s","i","o","n","-","c","o","n","t","r","o","l","l","e","r">> >>],
   [category |-> "conxian_dex", patterns |-> <<
      <<"d","e","x","-","f","a","c","t","o","r","y">>,
      <<"d","e","x","-","f","a","c","t","o","r","y","-","v","2">>,
      <<"d","e","x","-","r","o","u","t","e","r">>, <<"d","e","x","-","p","o","o","l">>,
      <<"d","e","x","-","v","a","u","l","t">>,
      <<"d","e","x","-","m","u","l","t","i","-","h","o","p","-","r","o","u","t","e","r","-","v","3">>,
      <<"f","e","e","-","m","a","n","a","g","e","r">>,
      <<"l","i","q","u","i","d","i","t","y","-","m","a","n","a","g","e","r">>,
      <<"s","t","a","b","l","e","-","s","w","a","p","-","p","o","o","l">>,
      <<"w","e","i","g","h","t","e","d","-","s","w","a","p","-","p","o","o","l">>,
      <<"m","e","v","-","p","r","o","t","e","c","t","o","r">> >>],
   [category |-> "conxian_dimensional", patterns |-> <<
      <<"d","i","m","-","r","e","g","i","s","t","r","y">>,
      <<"d","i","m","-","m","e","t","r","i","c","s">>, <<"d","i","m","-","g","r","a","p","h">>,
      <<"d","i","m","-","o","r","a","c","l","e","-","a","u","t","o","m","a","t","i","o","n">>,
      <<"d","i","m","-","r","e","v","e","n","u","e","-","a","d","a","p","t","e","r">>,
      <<"d","i","m","-","y","i","e","l","d","-","s","t","a","k","e">>,
      <<"p","o","s","i","t","i","o","n","-","n","f","t">>,
      <<"d","i","m","e","n","s","i","o","n","a","l","-","c","o","r","e">>,
      <<"d","i","m","e","n","s","i","o","n","a","l","-","a","d","v","a","n","c","e","d","-","r","o","u","t","e","r","-","d","i","j","k","s","t","r","a">>,
      <<"c","o","n","c","e","n","t","r","a","t","e","d","-","l","i","q","u","i","d","i","t","y","-","p","o","o","l">>,
      <<"c","o","n","c","e","n","t","r","a","t","e","d","-","l","i","q","u","i","d","i","t","y","-","p","o","o","l","-","v","2">> >>],
   [category |-> "conxian_governance", patterns |-> <<
      <<"g","o","v","e","r","n","a","n","c","e","-","t","o","k","e","n">>,
      <<"p","r","o","p","o","s","a","l","-","e","n","g","i","n","e">>,
      <<"t","i","m","e","l","o","c","k","-","c","o","n","t","r","o","l","l","e","r">>,
      <<"u","p","g","r","a","d","e","-","c","o","n","t","r","o","l","l","e","r">>,
      <<"e","m","e","r","g","e","n","c","y","-","g","o","v","e","r","n","a","n","c","e">>,
      <<"g","o","v","e","r","n","a","n","c","e","-","s","i","g","n","a","t","u","r","e","-","v","e","r","i","f","i","e","r">> >>],
   [category |-> "conxian_oracle", patterns |-> <<
      <<"o","r","a","c","l","e">>,
      <<"o","r","a","c","l","e","-","a","g","g","r","e","g","a","t","o","r">>,
      <<"o","r","a","c","l","e","-","a","g","g","r","e","g","a","t","o","r","-","v","2">>,
      <<"b","t","c","-","a","d","a","p","t","e","r">>,
      <<"e","x","t","e","r","n","a","l","-","o","r","a","c","l","e","-","a","d","a","p","t","e","r">>,
      <<"o","r","a","c","l","e","-","d","i","m","e","n","s","i","o","n","a","l","-","o","r","a","c","l","e">> >>],
   [category |-> "conxian_security", patterns |-> <<
      <<"c","i","r","c","u","i","t","-","b","r","e","a","k","e","r">>,
      <<"p","a","u","s","a","b","l","e">>,
      <<"a","c","c","e","s","s","-","c","o","n","t","r","o","l","-","i","n","t","e","r","f","a","c","e">>,
      <<"r","a","t","e","-","l","i","m","i","t","e","r">>,
      <<"m","e","v","-","p","r","o","t","e","c","t","o","r">>,
      <<"m","o","n","i","t","o","r","i","n","g","-","d","a","s","h","b","o","a","r","d">> >>],
   [category |-> "conxian_monitoring", patterns |-> <<
      <<"a","n","a","l","y","t","i","c","s","-","a","g","g","r","e","g","a","t","o","r">>,
      <<"m","o","n","i","t","o","r","i","n","g","-","d","a","s","h","b","o","a","r","d">>,
      <<"f","i","n","a","n","c","e","-","m","e","t","r","i","c","s">>,
      <<"p","e","r","f","o","r","m","a","n","c","e","-","o","p","t","i","m","i","z","e","r">>,
      <<"p","r","i","c","e","-","s","t","a","b","i","l","i","t","y","-","m","o","n","i","t","o","r">>,
      <<"s","y","s","t","e","m","-","m","o","n","i","t","o","r">>,
      <<"r","e","a","l","-","t","i","m","e","-","m","o","n","i","t","o","r","i","n","g","-","d","a","s","h","b","o","a","r","d">>,
      <<"p","r","o","t","o","c","o","l","-","i","n","v","a","r","i","a","n","t","-","m","o","n","i","t","o","r">> >>],
   [category |-> "conxian_chainhooks", patterns |-> <<
      <<"b","a","t","c","h","-","p","r","o","c","e","s","s","o","r">>,
      <<"k","e","e","p","e","r","-","c","o","o","r","d","i","n","a","t","o","r">>,
      <<"a","u","t","o","m","a","t","i","o","n","-","b","a","t","c","h","-","p","r","o","c","e","s","s","o","r">>,
      <<"t","r","a","n","s","a","c","t","i","o","n","-","b","a","t","c","h","-","p","r","o","c","e","s","s","o","r">>,
      <<"p","r","e","d","i","c","t","i","v","e","-","s","c","a","l","i","n","g","-","s","y","s","t","e","m">> >>],
   [category |-> "conxian_enterprise", patterns |-> <<
      <<"e","n","t","e","r","p","r","i","s","e","-","a","p","i">>,
      <<"e","n","t","e","r","p","r","i","s","e","-","l","o","a","n","-","m","a","n","a","g","e","r">>,
      <<"c","o","m","p","l","i","a","n","c","e","-","h","o","o","k","s">>,
      <<"b","u","d","g","e","t","-","m","a","n","a","g","e","r">>,
      <<"e","n","t","e","r","p","r","i","s","e","-","c","o","m","p","l","i","a","n","c","e","-","h","o","o","k","s">> >>],
   [category |-> "conxian_lending", patterns |-> <<
      <<"c","o","m","p","r","e","h","e","n","s","i","v","e","-","l","e","n","d","i","n","g","-","s","y","s","t","e","m">>,
      <<"e","n","t","e","r","p","r","i","s","e","-","l","o","a","n","-","m","a","n","a","g","e","r">>,
      <<"s","b","t","c","-","l","e","n","d","i","n","g","-","s","y","s","t","e","m">>,
      <<"s","b","t","c","-","l","e","n","d","i","n","g","-","i","n","t","e","g","r","a","t","i","o","n">>,
      <<"d","i","m","e","n","s","i","o","n","a","l","-","v","a","u","l","t">>,
      <<"s","b","t","c","-","v","a","u","l","t">>, <<"v","a","u","l","t">>,
      <<"l","i","q","u","i","d","a","t","i","o","n","-","m","a","n","a","g","e","r">> >>]
  >>

\* The flat priority list of the sorter; position = priority.
priority_order ==
  <<
    <<"t","r","a","i","t">>, <<"t","r","a","i","t","s">>,
    <<"i","n","t","e","r","f","a","c","e">>, <<"i","n","t","e","r","f","a","c","e","s">>,
    <<"s","i","p","-","0","0","9">>, <<"s","i","p","-","0","1","0">>,
    <<"s","i","p","-","0","1","3">>, <<"s","i","p","-","0","1","8">>, <<"u","t","i","l","s">>,
    <<"u","t","i","l">>, <<"h","e","l","p","e","r">>, <<"l","i","b","r","a","r","y">>,
    <<"l","i","b">>, <<"m","a","t","h">>, <<"s","t","r","i","n","g">>,
    <<"e","n","c","o","d","i","n","g">>, <<"c","r","y","p","t","o">>, <<"h","a","s","h">>,
    <<"e","r","r","o","r">>, <<"c","o","n","s","t","a","n","t","s">>, <<"t","y","p","e","s">>,
    <<"c","o","r","e">>, <<"m","a","i","n">>, <<"p","r","i","n","c","i","p","a","l">>,
    <<"r","e","g","i","s","t","r","y">>, <<"m","a","n","a","g","e","r">>,
    <<"t","o","k","e","n">>, <<"f","t">>, <<"n","f","t">>, <<"f","u","n","g","i","b","l","e">>,
    <<"n","o","n","-","f","u","n","g","i","b","l","e">>, <<"m","i","n","t">>,
    <<"b","u","r","n">>, <<"t","r","a","n","s","f","e","r">>, <<"b","a","l","a","n","c","e">>,
    <<"s","u","p","p","l","y">>, <<"d","e","x">>, <<"s","w","a","p">>, <<"p","o","o","l">>,
    <<"l","i","q","u","i","d","i","t","y">>, <<"a","m","m">>, <<"r","o","u","t","e","r">>,
    <<"f","a","c","t","o","r","y">>, <<"p","a","i","r">>, <<"v","a","u","l","t">>,
    <<"s","t","a","k","i","n","g">>, <<"f","a","r","m","i","n","g">>, <<"y","i","e","l","d">>,
    <<"r","e","w","a","r","d","s">>, <<"o","r","a","c","l","e">>, <<"p","r","i","c","e">>,
    <<"f","e","e","d">>, <<"a","g","g","r","e","g","a","t","o","r">>,
    <<"a","d","a","p","t","e","r">>, <<"d","a","o">>,
    <<"g","o","v","e","r","n","a","n","c","e">>, <<"p","r","o","p","o","s","a","l">>,
    <<"v","o","t","e">>, <<"v","o","t","i","n","g">>, <<"t","i","m","e","l","o","c","k">>,
    <<"u","p","g","r","a","d","e">>, <<"a","d","m","i","n">>, <<"o","w","n","e","r">>,
    <<"c","o","n","t","r","o","l","l","e","r">>, <<"a","u","t","h">>,
    <<"a","c","c","e","s","s">>, <<"c","o","n","t","r","o","l">>,
    <<"c","i","r","c","u","i","t">>, <<"b","r","e","a","k","e","r">>, <<"p","a","u","s","e">>,
    <<"p","a","u","s","a","b","l","e">>, <<"r","a","t","e">>, <<"l","i","m","i","t">>,
    <<"e","m","e","r","g","e","n","c","y">>, <<"m","o","n","i","t","o","r">>,
    <<"a","n","a","l","y","t","i","c","s">>, <<"m","e","t","r","i","c","s">>,
    <<"d","a","s","h","b","o","a","r","d">>, <<"t","e","s","t">>, <<"m","o","c","k">>,
    <<"f","a","k","e">>, <<"s","i","m","u","l","a","t","o","r">>, <<"d","e","b","u","g">> >>
-----------------------------------------------------------------------------
(* Contract names *)

\* Contract names, written as the character sequences the code searches
N_zzz_unrelated == <<"z","z","z","-","u","n","r","e","l","a","t","e","d">>

N_all_traits == <<"a","l","l","-","t","r","a","i","t","s">>

N_cxd_token == <<"c","x","d","-","t","o","k","e","n">>

N_dex_factory == <<"d","e","x","-","f","a","c","t","o","r","y">>

N_oracle_aggregator == <<"o","r","a","c","l","e","-","a","g","g","r","e","g","a","t","o","r">>

N_utils == <<"u","t","i","l","s">>

N_Utils == <<"U","t","i","l","s">>

N_test_utils == <<"t","e","s","t","-","u","t","i","l","s">>

N_Token_Trait == <<"T","o","k","e","n","-","T","r","a","i","t">>

N_governance_dao == <<"g","o","v","e","r","n","a","n","c","e","-","d","a","o">>

N_mock_token == <<"m","o","c","k","-","t","o","k","e","n">>

N_fee_manager == <<"f","e","e","-","m","a","n","a","g","e","r">>

N_debug_shim == <<"d","e","b","u","g","-","s","h","i","m">>

\* the names the categorizer is called with
NamePool ==
  {N_zzz_unrelated, N_all_traits, N_cxd_token, N_dex_factory, N_oracle_aggregator,
   N_utils, N_Utils, N_test_utils, N_Token_Trait, N_governance_dao, N_mock_token,
   N_fee_manager, N_debug_shim}

-----------------------------------------------------------------------------
(* Categorizer *)

\* _load_contract_categories: the generic table, then the Conxian one in Conxian mode
load_contract_categories(conxian_mode) ==
  IF conxian_mode THEN generic_categories \o conxian_categories ELSE generic_categories

\* any(pattern in name_lower for pattern in patterns)
any_pattern_in(patterns, name_lower) ==
  \E k \in DOMAIN patterns : is_substring(patterns[k], name_lower)

\* the loop of _determine_contract_category from table position i on
RECURSIVE category_from(_, _, _)
category_from(categories, i, name_lower) ==
  IF i > Len(categories) THEN "general"
  ELSE IF any_pattern_in(categories[i].patterns, name_lower) THEN categories[i].category
  ELSE category_from(categories, i + 1, name_lower)

\* the category of every name of NamePool in either mode, as the loop computes it
\* (tabulated once: the table and the names are fixed)
category_table ==
  [conxian_mode \in BOOLEAN |->
     [contract_name \in NamePool |->
        category_from(load_contract_categories(conxian_mode), 1, lower(contract_name))]]

\* a categorizer that returns the last matching category instead of the first
determine_contract_category_last(conxian_mode, contract_name) ==
  LET categories == load_contract_categories(conxian_mode)
      hits == {i \in DOMAIN categories :
                 any_pattern_in(categories[i].patterns, lower(contract_name))}
  IN  IF hits = {} THEN "general"
      ELSE categories[CHOOSE i \in hits : \A j \in hits : j <= i].category

\* _determine_contract_category, with self.contract_categories loaded for the mode
determine_contract_category(conxian_mode, contract_name) ==
  category_table[conxian_mode][contract_name]

-----------------------------------------------------------------------------
(* Deployment-order sorter *)

\* Python values that reach the sorter: a dict (py = "dict", with or without a
\* 'name' key), None, or a value of another type.
None == [py |-> "None"]

NotADict == [py |-> "str"]

\* c and isinstance(c, dict) and c.get('name')
is_valid_contract(c) ==
  /\ c.py = "dict"
  /\ "name" \in DOMAIN c
  /\ c.name # <<>>

\* the for loop of get_priority from list position i on (positions are 1-based
\* here, the returned index is Python's 0-based one)
RECURSIVE priority_from(_, _)
priority_from(i, name_lower) ==
  IF i > Len(priority_order) THEN Len(priority_order)
  ELSE IF is_substring(priority_order[i], name_lower) THEN i - 1
  ELSE priority_from(i + 1, name_lower)

\* the priority of every name of NamePool, as the loop computes it (tabulated once)
priority_table ==
  [contract_name \in NamePool |-> priority_from(1, lower(contract_name))]

\* a get_priority that compares the name as written, not lower-cased
get_priority_nolower(contract) ==
  priority_from(1, contract.name)

\* get_priority (only valid contracts reach it, so the name is never empty)
get_priority(contract) ==
  priority_table[contract.name]

\* an insertion that puts x before the elements of equal key
insert_by_key_before_equal(sorted_pairs, x) ==
  LET n == Cardinality({i \in DOMAIN sorted_pairs : sorted_pairs[i][1] < x[1]})
  IN  SubSeq(sorted_pairs, 1, n) \o <<x>> \o SubSeq(sorted_pairs, n + 1, Len(sorted_pairs))

\* one insertion of the stable sort: x goes after every element whose key is
\* less than or equal to its own
insert_by_key(sorted_pairs, x) ==
  LET n == Cardinality({i \in DOMAIN sorted_pairs : sorted_pairs[i][1] <= x[1]})
  IN  SubSeq(sorted_pairs, 1, n) \o <<x>> \o SubSeq(sorted_pairs, n + 1, Len(sorted_pairs))

\* sorted(pairs, key = first component): Python's sort is stable
RECURSIVE sorted_pairs_by_key(_)
sorted_pairs_by_key(pairs) ==
  IF pairs = <<>> THEN <<>>
  ELSE insert_by_key(sorted_pairs_by_key(SubSeq(pairs, 1, Len(pairs) - 1)),
                     pairs[Len(pairs)])

\* [x for x in s if keep(x)] for the validity filter
RECURSIVE valid_contracts_of(_)
valid_contracts_of(contracts) ==
  IF contracts = <<>> THEN <<>>
  ELSE LET rest == valid_contracts_of(Tail(contracts))
       IN  IF is_valid_contract(Head(contracts)) THEN <<Head(contracts)>> \o rest ELSE rest

\* a sorter whose filter forgets c.get('name'): dicts without a name stay, at the
\* lowest priority
sort_contracts_keeping_nameless(contracts) ==
  LET kept == SelectSeq(contracts, LAMBDA c : c.py = "dict")
      pairs == [i \in DOMAIN kept |->
                  <<IF is_valid_contract(kept[i]) THEN get_priority(kept[i])
                    ELSE Len(priority_order), kept[i]>>]
      sorted == sorted_pairs_by_key(pairs)
  IN  [i \in DOMAIN sorted |-> sorted[i][2]]

\* a sorter that filters and leaves the contracts in input order
sort_contracts_in_input_order(contracts) == valid_contracts_of(contracts)

\* _sort_contracts_by_generic_dependencies
sort_contracts_by_generic_dependencies(contracts) ==
  LET valid_contracts == valid_contracts_of(contracts)
      pairs == [i \in DOMAIN valid_contracts |->
                  <<get_priority(valid_contracts[i]), valid_contracts[i]>>]
      sorted == sorted_pairs_by_key(pairs)
  IN  [i \in DOMAIN sorted |-> sorted[i][2]]

-----------------------------------------------------------------------------
(* The file system *)

\* A .clar file is [loc |-> <directory components below the project directory>,
\* stem |-> <file name without .clar>].  A directory holds:
\*   toml      Clarinet.toml: [exists, parses, contracts, regex_matches]
\*             contracts: the [name, path] entries a TOML parse yields, in file order
\*             regex_matches: for each regex of the manual parser, what findall returns
\*   tree      the .clar files below the directory, in the order the OS lists them
\*   history   the deployment-history JSON files: [path, readable, json]
\*   manifests the deployment-manifest JSON files: [path, readable, json]
\*   env       the .env file: "absent", "no_network" or "ok"
\* readable is FALSE for a JSON file that cannot be opened or decoded.

\* the path written for a file: its relative path below the directory
relative_path(file) == file.loc \o <<file.stem>>

\* does loc lie in (or below) the directory named by prefix
is_below(prefix, loc) ==
  /\ Len(prefix) <= Len(loc)
  /\ SubSeq(loc, 1, Len(prefix)) = prefix

\* [x for x in s if x.loc is below prefix], keeping order
RECURSIVE files_below(_, _)
files_below(prefix, tree) ==
  IF tree = <<>> THEN <<>>
  ELSE LET rest == files_below(prefix, Tail(tree))
       IN  IF is_below(prefix, Head(tree).loc) THEN <<Head(tree)>> \o rest ELSE rest

\* full_path.exists() for a path named by the manifest
path_exists(content, path) ==
  \E i \in DOMAIN content.tree : relative_path(content.tree[i]) = path

\* the descriptor the discovery strategies build (size, modified and hash, which no
\* later step reads, are left out)
descriptor(conxian_mode, name, path, source) ==
  [py |-> "dict", name |-> name, path |-> path, source |-> source,
   category |-> determine_contract_category(conxian_mode, name)]

-----------------------------------------------------------------------------
(* Discovery strategies *)

\* the entries of a list of [name, path] whose file exists, as descriptors
RECURSIVE existing_entries(_, _, _)
existing_entries(conxian_mode, content, entries) ==
  IF entries = <<>> THEN <<>>
  ELSE LET e == Head(entries)
           rest == existing_entries(conxian_mode, content, Tail(entries))
       IN  IF path_exists(content, e.path)
           THEN <<descriptor(conxian_mode, e.name, e.path, "clarinet_toml")>> \o rest
           ELSE rest

\* the pattern loop of _parse_clarinet_toml_manually from pattern i on: the first
\* pattern with any match is used and the loop breaks
RECURSIVE manual_from(_, _, _)
manual_from(conxian_mode, content, i) ==
  IF i > Len(content.toml.regex_matches) THEN <<>>
  ELSE IF content.toml.regex_matches[i] # <<>>
       THEN existing_entries(conxian_mode, content, content.toml.regex_matches[i])
       ELSE manual_from(conxian_mode, content, i + 1)

\* a manual parse that applies every pattern and merges what they match
parse_clarinet_toml_manually_merging(conxian_mode, content) ==
  existing_entries(conxian_mode, content,
                   content.toml.regex_matches[1] \o content.toml.regex_matches[2]
                     \o content.toml.regex_matches[3])

\* _parse_clarinet_toml_manually
parse_clarinet_toml_manually(conxian_mode, content) ==
  manual_from(conxian_mode, content, 1)

\* a manifest parse whose error handler gives up instead of falling back
parse_generic_clarinet_toml_no_fallback(conxian_mode, content) ==
  IF ~content.toml.exists THEN <<>>
  ELSE IF content.toml.parses
       THEN existing_entries(conxian_mode, content, content.toml.contracts)
       ELSE <<>>

\* _parse_generic_clarinet_toml: tomllib.load raising is caught by the handler of
\* line 323, which returns what the manual parse finds
parse_generic_clarinet_toml(conxian_mode, content) ==
  IF ~content.toml.exists THEN <<>>
  ELSE IF content.toml.parses
       THEN existing_entries(conxian_mode, content, content.toml.contracts)
       ELSE parse_clarinet_toml_manually(conxian_mode, content)

\* scan_patterns of _generic_directory_scan: the directory each glob is rooted at
scan_patterns ==
  << [prefix |-> <<"contracts">>,             description |-> "contracts directory"],
     [prefix |-> <<"clarinet", "contracts">>, description |-> "clarinet contracts"],
     [prefix |-> <<"src">>,                   description |-> "src directory"],
     [prefix |-> <<>>,                        description |-> "any .clar files"] >>

\* structures of _scan_project_structures
structures ==
  << [prefix |-> <<"clarinet">>,           description |-> "Clarinet project structure"],
     [prefix |-> <<"contracts">>,          description |-> "Standard contracts directory"],
     [prefix |-> <<"src", "contracts">>,   description |-> "Source contracts"],
     [prefix |-> <<"packages">>,           description |-> "Monorepo packages"],
     [prefix |-> <<"tests", "contracts">>, description |-> "Test contracts"] >>

\* the descriptors of the files one pattern (or one structure) finds
found_descriptors(conxian_mode, content, pattern) ==
  LET found_contracts == files_below(pattern.prefix, content.tree)
  IN  [i \in DOMAIN found_contracts |->
         descriptor(conxian_mode, found_contracts[i].stem,
                    relative_path(found_contracts[i]), pattern.description)]

\* the loop over patterns (or structures) from position i on: every pattern's
\* finds are appended, none is checked against the ones before
RECURSIVE scan_from(_, _, _, _)
scan_from(conxian_mode, content, patterns, i) ==
  IF i > Len(patterns) THEN <<>>
  ELSE found_descriptors(conxian_mode, content, patterns[i])
         \o scan_from(conxian_mode, content, patterns, i + 1)

\* _generic_directory_scan
generic_directory_scan(conxian_mode, content) ==
  scan_from(conxian_mode, content, scan_patterns, 1)

\* _scan_project_structures
scan_project_structures(conxian_mode, content) ==
  scan_from(conxian_mode, content, structures, 1)

\* [c for c in found if c['name'] not in existing_names]
RECURSIVE not_in_names(_, _)
not_in_names(found, existing_names) ==
  IF found = <<>> THEN <<>>
  ELSE LET rest == not_in_names(Tail(found), existing_names)
       IN  IF Head(found).name \notin existing_names THEN <<Head(found)>> \o rest ELSE rest

\* {c['name'] for c in contracts}
names_of(contracts) == {contracts[i].name : i \in DOMAIN contracts}

\* an extension that merges the later strategy's finds without looking at the names
extend_new_all(contracts, found) ==
  contracts \o found

\* contracts.extend(new_contracts): the finds of a later strategy whose name no
\* earlier strategy has given
extend_new(contracts, found) ==
  contracts \o not_in_names(found, names_of(contracts))

\* _categorize_contracts: a descriptor without a category gets one
categorize_contracts(conxian_mode, contracts) ==
  [i \in DOMAIN contracts |->
     IF "category" \in DOMAIN contracts[i] THEN contracts[i]
     ELSE contracts[i] @@
          [category |-> determine_contract_category(conxian_mode, contracts[i].name)]]

\* _comprehensive_generic_contract_detection on a cache miss (methods 1, 2 and 4;
\* method 3 only prints what the deployment manifests reference)
detect_contracts(conxian_mode, content) ==
  LET clarinet_contracts == parse_generic_clarinet_toml(conxian_mode, content)
      directory_contracts == generic_directory_scan(conxian_mode, content)
      project_contracts == scan_project_structures(conxian_mode, content)
      after_scan == extend_new(clarinet_contracts, directory_contracts)
      after_structures == extend_new(after_scan, project_contracts)
  IN  sort_contracts_by_generic_dependencies(
        categorize_contracts(conxian_mode, after_structures))

-----------------------------------------------------------------------------
(* Deployment-status reconciler *)

\* dict.get(key, default) for the keys the reconciler reads
get_or(d, key, default) == IF key \in DOMAIN d THEN d[key] ELSE default

\* history_patterns of _check_local_deployment_status: the paths each glob matches
history_patterns ==
  << {"deployment/history.json"},
     {".stacksorbit/deployment_history.json"},
     {".stacksorbit/deployment_history.json", "logs/deployment_history.json"} >>

\* manifest_patterns of _check_local_deployment_status
manifest_patterns ==
  << {"deployment/manifest.json"},
     {".stacksorbit/manifest.json"},
     {"out/testnet-manifest.json"},
     {"out/mainnet-manifest.json"} >>

\* the files of one glob, in listing order
RECURSIVE files_matching(_, _)
files_matching(paths, files) ==
  IF files = <<>> THEN <<>>
  ELSE LET rest == files_matching(paths, Tail(files))
       IN  IF Head(files).path \in paths THEN <<Head(files)>> \o rest ELSE rest

\* deployment_history.extend(data) for every readable file of the glob
RECURSIVE extend_all(_)
extend_all(files) ==
  IF files = <<>> THEN <<>>
  ELSE IF ~Head(files).readable THEN extend_all(Tail(files))
       ELSE Head(files).json \o extend_all(Tail(files))

\* manifests.append(data) for every readable file of the glob
RECURSIVE append_all(_)
append_all(files) ==
  IF files = <<>> THEN <<>>
  ELSE IF ~Head(files).readable THEN append_all(Tail(files))
       ELSE <<Head(files).json>> \o append_all(Tail(files))

\* the loop over history patterns from position i on
RECURSIVE history_from(_, _)
history_from(content, i) ==
  IF i > Len(history_patterns) THEN <<>>
  ELSE extend_all(files_matching(history_patterns[i], content.history))
         \o history_from(content, i + 1)

\* the loop over manifest patterns from position i on
RECURSIVE manifests_from(_, _)
manifests_from(content, i) ==
  IF i > Len(manifest_patterns) THEN <<>>
  ELSE append_all(files_matching(manifest_patterns[i], content.manifests))
         \o manifests_from(content, i + 1)

\* _check_local_deployment_status
check_local_deployment_status(content) ==
  LET deployment_history == history_from(content, 1)
  IN  [has_local_history |-> Len(deployment_history) > 0,
       deployment_history |-> deployment_history,
       manifests |-> manifests_from(content, 1)]

\* _check_blockchain_deployment_status: no API is queried, the snapshot is simulated
check_blockchain_deployment_status(content) ==
  IF content.env = "absent" THEN [status |-> "no_config"]
  ELSE IF content.env = "no_network" THEN [status |-> "no_network"]
  ELSE [status |-> "simulated", account_nonce |-> 0, deployed_contracts |-> <<>>]

\* a mode selection that looks at the local history first
determine_deployment_mode_history_first(local_status, blockchain_status) ==
  IF get_or(local_status, "has_local_history", FALSE) THEN "incremental"
  ELSE IF get_or(blockchain_status, "account_nonce", 0) > 0 THEN "upgrade"
  ELSE "full"

\* _determine_deployment_mode
determine_deployment_mode(local_status, blockchain_status) ==
  IF get_or(blockchain_status, "account_nonce", 0) > 0 THEN "upgrade"
  ELSE IF get_or(local_status, "has_local_history", FALSE) THEN "incremental"
  ELSE "full"

\* the names one manifest lists as successful:
\* manifest.get('deployment', {}).get('successful', []), then contract.get('name')
successful_names(manifest) ==
  LET successful == get_or(get_or(manifest, "deployment", <<>>),
                           "successful", <<>>)
  IN  {successful[i].name : i \in DOMAIN successful}

\* a value json.load returns that is no dict: the JSON document []
JsonList == [py |-> "list"]

\* has the value a .get method (is it a dict)
is_json_dict(v) == "py" \notin DOMAIN v

\* does the manifest loop of _get_contracts_to_skip raise AttributeError: .get is
\* called on the manifest, on its 'deployment' value and on every element of its
\* 'successful' list, outside any handler
get_contracts_to_skip_raises(local_status) ==
  LET manifests == get_or(local_status, "manifests", <<>>)
  IN  \E i \in DOMAIN manifests :
        \/ ~is_json_dict(manifests[i])
        \/ /\ is_json_dict(manifests[i])
           /\ LET deployment == get_or(manifests[i], "deployment", <<>>)
              IN  \/ ~is_json_dict(deployment)
                  \/ /\ is_json_dict(deployment)
                     /\ LET successful == get_or(deployment, "successful", <<>>)
                        IN  \E k \in DOMAIN successful : ~is_json_dict(successful[k])

\* a skip set that forgets the local manifests
get_contracts_to_skip_remote_only(local_status, blockchain_status) ==
  LET deployed == get_or(blockchain_status, "deployed_contracts", <<>>)
  IN  {deployed[i] : i \in DOMAIN deployed}

\* _get_contracts_to_skip (the list of a set: its order carries nothing)
get_contracts_to_skip(local_status, blockchain_status) ==
  LET deployed == get_or(blockchain_status, "deployed_contracts", <<>>)
      manifests == get_or(local_status, "manifests", <<>>)
  IN  {deployed[i] : i \in DOMAIN deployed}
        \cup UNION {successful_names(manifests[i]) : i \in DOMAIN manifests}

\* dict.get on the contract cache: the list cached for key, [] without one
cache_get(cache, key) == IF key \in DOMAIN cache THEN cache[key] ELSE <<>>

\* _get_contracts_to_deploy
get_contracts_to_deploy(cache, root, local_status, blockchain_status) ==
  LET all_contracts == cache_get(cache, root)
  IN  names_of(all_contracts) \ get_contracts_to_skip(local_status, blockchain_status)

\* [c for c in contracts if c['name'] not in contracts_to_skip]
filter_not_skipped(contracts, contracts_to_skip) ==
  not_in_names(contracts, contracts_to_skip)

\* a plan that filters the skip set out in every mode
filtered_contracts_always(deployment_mode, contracts, contracts_to_skip) ==
  filter_not_skipped(contracts, contracts_to_skip)

\* the mode-dependent filter of _generate_generic_deployment_plan
filtered_contracts_for(deployment_mode, contracts, contracts_to_skip) ==
  IF deployment_mode = "upgrade"
  THEN filter_not_skipped(contracts, contracts_to_skip)
  ELSE contracts

\* _estimate_deployment_time
estimate_deployment_time(contracts) ==
  LET total_time == Len(contracts) * 2
                      + Cardinality({i \in DOMAIN contracts :
                                       get_or(contracts[i], "category", "general")
                                         \in {"defi", "dao"}})
  IN  IF total_time > 5 THEN total_time ELSE 5

\* _generate_generic_deployment_plan (estimated_gas, a float sum no step reads, is
\* left out)
generate_generic_deployment_plan(detection, deployment_analysis) ==
  LET contracts == detection.contracts
      filtered_contracts ==
        sort_contracts_by_generic_dependencies(
          filtered_contracts_for(deployment_analysis.deployment_mode, contracts,
                                 deployment_analysis.contracts_to_skip))
  IN  [deployment_mode |-> deployment_analysis.deployment_mode,
       total_contracts |-> Len(contracts),
       contracts_to_deploy |-> Cardinality(deployment_analysis.contracts_to_deploy),
       contracts_to_skip |-> Cardinality(deployment_analysis.contracts_to_skip),
       filtered_contracts |-> filtered_contracts,
       estimated_time |-> estimate_deployment_time(filtered_contracts),
       deployment_order |-> [i \in DOMAIN filtered_contracts |-> filtered_contracts[i].name]]

\* _analyze_deployment_status, given the two status records
analysis_of(cache, root, local_status, blockchain_status) ==
  [local_status |-> local_status,
   blockchain_status |-> blockchain_status,
   deployment_mode |-> determine_deployment_mode(local_status, blockchain_status),
   contracts_to_skip |-> get_contracts_to_skip(local_status, blockchain_status),
   contracts_to_deploy |->
     get_contracts_to_deploy(cache, root, local_status, blockchain_status)]

\* _analyze_deployment_status: both statuses are read from the project root
analyze_deployment_status(cache, root, content) ==
  analysis_of(cache, root, check_local_deployment_status(content),
              check_blockchain_deployment_status(content))

-----------------------------------------------------------------------------
(* The detector *)

\* the directories of the model
Dirs == {"/a", "/b"}

\* state.get('previous_directory') before any directory change was handled
NoDirectory == "None"

\* the call returned: no exception escaped
NoError == "None"

\* what a call of the detector returns when it returned nothing
NoResult == [ready |-> FALSE, mode |-> "none"]

\* a setup detection that records a change of directory and keeps the cache
detect_current_setup_keeping_cache(st, cache, current_dir, conxian_mode, content) ==
  LET changed == current_dir # st.current_directory
      st1 == IF changed
             THEN [st EXCEPT !.current_directory = current_dir,
                             !.directory_history =
                               Append(@, [from |-> st.previous_directory,
                                          to |-> current_dir])]
             ELSE st
      hit == current_dir \in DOMAIN cache
      contracts == IF hit THEN cache[current_dir]
                   ELSE detect_contracts(conxian_mode, content)
      cache2 == IF hit THEN cache ELSE (current_dir :> contracts) @@ cache
  IN  [state |-> st1,
       cache |-> cache2,
       detection |-> [directory |-> current_dir,
                      contracts_found |-> Len(contracts),
                      contracts |-> contracts,
                      directory_changed |-> current_dir # st1.previous_directory]]

\* _detect_current_setup: the state, the cache and the detection it leaves
detect_current_setup(st, cache, current_dir, conxian_mode, content) ==
  LET changed == current_dir # st.current_directory
      st1 == IF changed
             THEN [st EXCEPT !.current_directory = current_dir,
                             !.directory_history =
                               Append(@, [from |-> st.previous_directory,
                                          to |-> current_dir])]
             ELSE st
      cache1 == IF changed THEN <<>> ELSE cache
      hit == current_dir \in DOMAIN cache1
      contracts == IF hit THEN cache1[current_dir]
                   ELSE detect_contracts(conxian_mode, content)
      cache2 == IF hit THEN cache1 ELSE (current_dir :> contracts) @@ cache1
  IN  [state |-> st1,
       cache |-> cache2,
       detection |-> [directory |-> current_dir,
                      contracts_found |-> Len(contracts),
                      contracts |-> contracts,
                      directory_changed |-> current_dir # st1.previous_directory]]

\* detect_and_analyze: steps 1, 3 and 4 (step 2 reads the wallet balance for
\* printing only, step 5 writes self.state to the state file)
detect_and_analyze(st, cache, current_dir, root, conxian_mode, files) ==
  LET setup == detect_current_setup(st, cache, current_dir, conxian_mode,
                                    files[current_dir])
      deployment_analysis == analyze_deployment_status(setup.cache, root, files[root])
      deployment_plan ==
        generate_generic_deployment_plan(setup.detection, deployment_analysis)
  IN  IF get_contracts_to_skip_raises(check_local_deployment_status(files[root]))
      THEN \* step 3 raises: what step 1 did to the state and the cache stays
           [state |-> setup.state,
            cache |-> setup.cache,
            error |-> "AttributeError",
            result |-> NoResult]
      ELSE [state |-> setup.state,
            cache |-> setup.cache,
            error |-> NoError,
            result |-> [detection |-> setup.detection,
                        deployment_analysis |-> deployment_analysis,
                        deployment_plan |-> deployment_plan,
                        ready |-> setup.detection.contracts_found > 0,
                        mode |-> IF conxian_mode THEN "conxian" ELSE "generic"]]

\* the end of handle_directory_change: the change is recorded in the history of
\* the state the detection left, and the detection's result is returned
record_directory_change(run, old_dir, new_directory) ==
  IF run.error # NoError THEN run
  ELSE [state |-> [run.state EXCEPT !.directory_history =
                     Append(@, [from |-> old_dir, to |-> new_directory,
                                contracts_found |->
                                  run.result.detection.contracts_found])],
        cache |-> run.cache,
        error |-> NoError,
        result |-> run.result]

\* handle_directory_change: the directories are set, both caches are cleared (the
\* deployment cache is never filled), and detection runs again
handle_directory_change(st, current_dir, root, conxian_mode, files, new_directory) ==
  record_directory_change(
    detect_and_analyze([st EXCEPT !.previous_directory = st.current_directory,
                                  !.current_directory = new_directory],
                       <<>>, current_dir, root, conxian_mode, files),
    st.current_directory, new_directory)

-----------------------------------------------------------------------------
(* Configuration validation *)

\* the length _validate_configuration wants of DEPLOYER_PRIVKEY
PrivkeyLength == 64

\* required_vars
required_vars == <<"DEPLOYER_PRIVKEY", "SYSTEM_ADDRESS", "NETWORK">>

\* the loop over required_vars from position i on: a variable that is absent or
\* empty is reported
RECURSIVE missing_from(_, _)
missing_from(config_content, i) ==
  IF i > Len(required_vars) THEN <<>>
  ELSE LET var == required_vars[i]
           rest == missing_from(config_content, i + 1)
       IN  IF var \notin DOMAIN config_content \/ Len(config_content[var]) = 0
           THEN <<var>> \o rest
           ELSE rest

\* _validate_configuration, given the key-value pairs read from the file: values
\* are sequences of characters
validate_configuration(config_content) ==
  LET missing ==
        missing_from(config_content, 1)
        \o (IF "DEPLOYER_PRIVKEY" \in DOMAIN config_content
               /\ Len(config_content["DEPLOYER_PRIVKEY"]) # PrivkeyLength
            THEN <<"DEPLOYER_PRIVKEY (invalid length)">> ELSE <<>>)
        \o (IF "SYSTEM_ADDRESS" \in DOMAIN config_content
               /\ ~(Len(config_content["SYSTEM_ADDRESS"]) > 0
                    /\ config_content["SYSTEM_ADDRESS"][1] = "S")
            THEN <<"SYSTEM_ADDRESS (invalid format)">> ELSE <<>>)
  IN  [is_valid |-> Len(missing) = 0, missing |-> missing]

-----------------------------------------------------------------------------
(* Chain-state accessors of the deployment monitor (src/deployment_monitor.py) *)

\* What one HTTP request meets: [kind |-> "timeout"], [kind |-> "refused"], or a
\* response [kind |-> "http", code, is_json, json] (json present when the body
\* decodes).  The value a Python call produces is [raised |-> FALSE, value] when
\* it returns and [raised |-> TRUE, exc] when it lets an exception escape.

\* return value
returns(value) == [raised |-> FALSE, value |-> value]

\* raise exc
raises(exc) == [raised |-> TRUE, exc |-> exc]

\* session.get(url), response.raise_for_status(), response.json(): the body of
\* every accessor's try block
fetch_json(response) ==
  IF response.kind = "timeout" THEN raises("Timeout")
  ELSE IF response.kind = "refused" THEN raises("ConnectionError")
  ELSE IF response.code >= 400 /\ response.code < 600 THEN raises("HTTPError")
  ELSE IF ~response.is_json THEN raises("JSONDecodeError")
  ELSE returns(response.json)

\* a check_api_status whose handler logs the error and raises it again
check_api_status_reraising(response) ==
  LET data == fetch_json(response)
  IN  IF data.raised THEN data
      ELSE returns([status |-> "online",
                    block_height |-> get_or(data.value, "stacks_tip_height", 0),
                    network_id |-> get_or(data.value, "network_id", "unknown")])

\* check_api_status (server_version, burn_block_height and tps, read by the
\* printing code only, are left out)
check_api_status(response) ==
  LET data == fetch_json(response)
  IN  IF data.raised THEN returns([status |-> "offline", error |-> data.exc])
      ELSE returns([status |-> "online",
                    block_height |-> get_or(data.value, "stacks_tip_height", 0),
                    network_id |-> get_or(data.value, "network_id", "unknown")])

\* get_account_info
get_account_info(response) ==
  LET data == fetch_json(response)
  IN  IF data.raised THEN returns(None) ELSE data

\* get_transaction_info
get_transaction_info(response) ==
  LET data == fetch_json(response)
  IN  IF data.raised THEN returns(None) ELSE data

\* get_deployed_contracts
get_deployed_contracts(response) ==
  LET data == fetch_json(response)
  IN  IF data.raised THEN returns(<<>>)
      ELSE returns(get_or(data.value, "contracts", <<>>))

\* s.split('.')[-1]
after_last_dot(s) ==
  LET dots == {i \in DOMAIN s : s[i] = "."}
  IN  IF dots = {} THEN s
      ELSE SubSeq(s, (CHOOSE i \in dots : \A j \in dots : j <= i) + 1, Len(s))

\* [x for x in s if x in names] (keep = TRUE) or if x not in names (keep = FALSE)
RECURSIVE select_names(_, _, _)
select_names(s, names, keep) ==
  IF s = <<>> THEN <<>>
  ELSE LET rest == select_names(Tail(s), names, keep)
       IN  IF (Head(s) \in names) = keep THEN <<Head(s)>> \o rest ELSE rest

\* a verification that counts the expected contracts it found instead of the
\* ones it missed
verify_deployment_any_found(expected_contracts, response) ==
  LET deployed_contracts == get_deployed_contracts(response).value
      deployed_names == [i \in DOMAIN deployed_contracts |->
                           after_last_dot(get_or(deployed_contracts[i], "contract_id", <<>>))]
      deployed_set == {deployed_names[i] : i \in DOMAIN deployed_names}
      expected_set == {expected_contracts[i] : i \in DOMAIN expected_contracts}
      verified == select_names(expected_contracts, deployed_set, TRUE)
      missing == select_names(expected_contracts, deployed_set, FALSE)
  IN  [expected |-> expected_contracts,
       deployed |-> deployed_names,
       verified |-> verified,
       missing |-> missing,
       extra |-> select_names(deployed_names, expected_set, FALSE),
       success |-> Len(verified) > 0]

\* verify_deployment
verify_deployment(expected_contracts, response) ==
  LET deployed_contracts == get_deployed_contracts(response).value
      deployed_names == [i \in DOMAIN deployed_contracts |->
                           after_last_dot(get_or(deployed_contracts[i], "contract_id", <<>>))]
      deployed_set == {deployed_names[i] : i \in DOMAIN deployed_names}
      expected_set == {expected_contracts[i] : i \in DOMAIN expected_contracts}
      verified == select_names(expected_contracts, deployed_set, TRUE)
      missing == select_names(expected_contracts, deployed_set, FALSE)
  IN  [expected |-> expected_contracts,
       deployed |-> deployed_names,
       verified |-> verified,
       missing |-> missing,
       extra |-> select_names(deployed_names, expected_set, FALSE),
       success |-> Len(missing) = 0]

\* config.get('SYSTEM_ADDRESS') when neither the file nor --address gives one
NoAddress == <<>>

\* the report of a run that verified nothing
NoReport == [success |-> FALSE]

\* main() of the monitor with a non-empty --verify list: the exit code and the
\* verification report
main_verify(expected_contracts, address, response) ==
  IF address = NoAddress THEN [exit_code |-> 1, verification |-> NoReport]
  ELSE LET verification == verify_deployment(expected_contracts, response)
       IN  [exit_code |-> IF verification.success THEN 0 ELSE 1,
            verification |-> verification]

-----------------------------------------------------------------------------
(* JSON: json.dump and json.load, as the detector uses them for its state file,
   applied to the analysis detect_and_analyze returns *)

\* json.dump refuses the value: TypeError, object is not JSON serializable
NotSerializable == [json |-> "TypeError"]

\* the JSON value json.dump writes for a Python value: a str gives a string, an int
\* a number, a list or a tuple an array, a dict an object; a set is refused, and
\* so is everything that holds one
RECURSIVE to_json(_)
to_json(v) ==
  CASE v.py = "str" -> [json |-> "string", value |-> v.value]
    [] v.py = "int" -> [json |-> "number", value |-> v.value]
    [] v.py \in {"list", "tuple"} ->
         LET items == [i \in DOMAIN v.items |-> to_json(v.items[i])]
         IN  IF \E i \in DOMAIN items : items[i] = NotSerializable
             THEN NotSerializable
             ELSE [json |-> "array", items |-> items]
    [] v.py = "dict" ->
         LET fields == [k \in DOMAIN v.fields |-> to_json(v.fields[k])]
         IN  IF \E k \in DOMAIN fields : fields[k] = NotSerializable
             THEN NotSerializable
             ELSE [json |-> "object", fields |-> fields]
    [] OTHER -> NotSerializable

\* the Python value json.load builds from a JSON value: an array gives a list, an
\* object a dict
RECURSIVE from_json(_)
from_json(j) ==
  CASE j.json = "string" -> [py |-> "str", value |-> j.value]
    [] j.json = "number" -> [py |-> "int", value |-> j.value]
    [] j.json = "array" ->
         [py |-> "list", items |-> [i \in DOMAIN j.items |-> from_json(j.items[i])]]
    [] j.json = "object" ->
         [py |-> "dict", fields |-> [k \in DOMAIN j.fields |-> from_json(j.fields[k])]]

\* json.dump, then json.load of what was written
json_round_trip(v) ==
  IF to_json(v) = NotSerializable THEN raises("TypeError")
  ELSE returns(from_json(to_json(v)))

\* the str objects of a sequence of names
py_strs(names) == [i \in DOMAIN names |-> [py |-> "str", value |-> names[i]]]

\* a name set returned as it is, without list()
py_set_of_names(names) == [py |-> "set", items |-> py_strs(names)]

\* list(skip_contracts), list(deploy_contracts): the names of the set in the order
\* the list happens to have
py_list_of_names(names) == [py |-> "list", items |-> py_strs(names)]

\* a contract descriptor as the Python dict it is
py_descriptor(c) ==
  [py |-> "dict",
   fields |-> [k \in DOMAIN c \ {"py"} |-> [py |-> "str", value |-> c[k]]]]

\* the 'deployment_analysis' and 'deployment_plan' values of the dict that
\* detect_and_analyze returns, as Python objects; to_skip and to_deploy are the
\* two name lists in the order list() gave them
py_analysis(plan, deployment_mode, to_skip, to_deploy) ==
  [py |-> "dict",
   fields |->
     [deployment_analysis |->
        [py |-> "dict",
         fields |-> [deployment_mode |-> [py |-> "str", value |-> deployment_mode],
                     contracts_to_skip |-> py_list_of_names(to_skip),
                     contracts_to_deploy |-> py_list_of_names(to_deploy)]],
      deployment_plan |->
        [py |-> "dict",
         fields |->
           [deployment_mode |-> [py |-> "str", value |-> plan.deployment_mode],
            total_contracts |-> [py |-> "int", value |-> plan.total_contracts],
            contracts_to_deploy |-> [py |-> "int", value |-> plan.contracts_to_deploy],
            contracts_to_skip |-> [py |-> "int", value |-> plan.contracts_to_skip],
            estimated_time |-> [py |-> "int", value |-> plan.estimated_time],
            filtered_contracts |->
              [py |-> "list",
               items |-> [i \in DOMAIN plan.filtered_contracts |->
                            py_descriptor(plan.filtered_contracts[i])]],
            deployment_order |-> py_list_of_names(plan.deployment_order)]]]]

\* the orders a list made of the set S can have
orderings(S) ==
  {order \in [1..Cardinality(S) -> S] :
     \A i, j \in DOMAIN order : i # j => order[i] # order[j]}

-----------------------------------------------------------------------------
(* The deploy command (src/ultimate_stacksorbit.py). The configuration manager
   and the deployer are imported modules: what validate_config, run_pre_checks
   and deploy_conxian answer is an input *)

\* the names bound in the module ultimate_stacksorbit when its functions run: its
\* imports, its class and main
module_globals ==
  {"os", "sys", "json", "time", "argparse", "Path", "Dict", "List", "Optional",
   "datetime", "SetupWizard", "EnhancedConfigManager", "EnhancedConxianDeployer",
   "DeploymentMonitor", "DeploymentVerifier", "EnhancedDashboard", "LocalDevnet",
   "UltimateStacksOrbit", "main"}

\* what a call has done and how it ended: the calls it made on its collaborators,
\* in order, and the value returned or the exception raised
ended(steps, outcome) == [steps |-> steps, outcome |-> outcome]

\* run_enhanced_deployment from its second statement on, were Fore and Style bound
deployment_flow(options, answers) ==
  IF ~answers.is_valid THEN ended(<<"validate_config">>, returns(1))
  ELSE IF ~options.skip_checks /\ ~answers.pre_checks /\ ~options.force
       THEN ended(<<"validate_config", "run_pre_checks">>, returns(1))
       ELSE LET steps == <<"validate_config">>
                           \o (IF options.skip_checks THEN <<>>
                               ELSE <<"run_pre_checks">>)
                           \o <<"deploy_conxian">>
            IN  IF ~options.dry_run /\ answers.failed
                THEN ended(steps, returns(1))
                ELSE ended(steps, returns(0))

\* run_enhanced_deployment: its first statement prints with Fore.CYAN
run_enhanced_deployment(options, answers) ==
  IF "Fore" \notin module_globals THEN ended(<<>>, raises("NameError"))
  ELSE deployment_flow(options, answers)

\* run_command('deploy', **options): it prints with Fore.CYAN before its try
\* block, and inside the block every exception gives the message and 1
run_command_deploy(options, answers) ==
  IF "Fore" \notin module_globals THEN ended(<<>>, raises("NameError"))
  ELSE LET run == run_enhanced_deployment(options, answers)
       IN  IF run.outcome.raised THEN ended(run.steps, returns(1)) ELSE run

-----------------------------------------------------------------------------
(* Bounds and input sets *)

\* longest directory history the model follows
MaxHistory == 2

\* longest list handed to the sorter
MaxSortLen == 3

\* longest list of discovered contracts handed to the plan generator
MaxPlanLen == 2

\* largest remote account nonce
MaxNonce == 1

\* most local deployment-history records
MaxRecords == 1

\* largest account nonce a poll of the monitor is told of
MaxPolledNonce == 2

\* most local deployment manifests
MaxManifests == 2

\* most contracts in a remote listing
MaxListed == 2

\* most names given to --verify
MaxExpected == 2

\* most polls of the dashboard's worker
MaxPolls == 2

\* longest overall timeout given to wait_for_transaction, in seconds
MaxTimeout == 7

\* longest time one request of wait_for_transaction takes to fail or answer, in seconds
MaxLatency == 1

\* the five names of the ordering example
FiveNames ==
  <<N_zzz_unrelated, N_all_traits, N_cxd_token, N_dex_factory, N_oracle_aggregator>>

\* a descriptor as the sorter sees it
contract_named(name, source) == [py |-> "dict", name |-> name, source |-> source]

\* the entries lists handed to the sorter are drawn from: valid descriptors (two
\* pairs of equal priority, one name in capitals), None, a dict without a name, a
\* dict with an empty name and a value that is no dict
SortPool ==
  {contract_named(N_utils, "clarinet_toml"), contract_named(N_test_utils, "src directory"),
   contract_named(N_Utils, "any .clar files"),
   contract_named(N_zzz_unrelated, "src directory"),
   None, NotADict, [py |-> "dict", source |-> "src directory"],
   contract_named(<<>>, "src directory")}

\* sequences over S of length at most n
SeqsUpTo(S, n) == UNION {[1..k -> S] : k \in 0..n}

\* the five names of the ordering example in every input order
FivePermutations ==
  {[i \in 1..5 |-> contract_named(FiveNames[p[i]], "clarinet_toml")] :
     p \in {q \in [1..5 -> 1..5] : \A i, j \in 1..5 : i # j => q[i] # q[j]}}

\* lists of contracts whose names hold keywords of two phases, and of contracts
\* of one phase
PhaseLists ==
  SeqsUpTo({contract_named(N_mock_token, "clarinet_toml"),
            contract_named(N_test_utils, "clarinet_toml"),
            contract_named(N_cxd_token, "clarinet_toml"),
            contract_named(N_governance_dao, "clarinet_toml"),
            contract_named(N_debug_shim, "clarinet_toml")}, MaxPlanLen)

\* the lists the sorter is called with
SortInputs == SeqsUpTo(SortPool, MaxSortLen) \cup FivePermutations \cup PhaseLists

\* local deployment manifests as json.load returns them
ManifestPool ==
  {[deployment |-> [successful |-> <<[name |-> N_cxd_token, tx_id |-> "0x1"]>>]],
   [deployment |-> [successful |-> <<[name |-> N_utils, tx_id |-> "0x2"],
                                     [name |-> N_dex_factory, tx_id |-> "0x3"]>>]],
   [deployment |-> [failed |-> <<>>]],
   [network |-> "testnet"]}

\* a deployment-history record
history_record(n) == [contract |-> n, status |-> "success"]

\* the local statuses _check_local_deployment_status can return
LocalStatuses ==
  {[has_local_history |-> n > 0,
    deployment_history |-> [i \in 1..n |-> history_record(i)],
    manifests |-> m] :
     n \in 0..MaxRecords, m \in SeqsUpTo(ManifestPool, MaxManifests)}

\* the deployed-contract lists of the remote snapshot
DeployedLists ==
  {<<>>, <<N_all_traits>>, <<N_all_traits, N_cxd_token>>, <<N_oracle_aggregator>>}

\* the remote statuses handed to the reconciler: without configuration, or an
\* account snapshot
BlockchainStatuses ==
  {[status |-> "no_config"], [status |-> "no_network"]}
    \cup {[status |-> "ok", account_nonce |-> n, deployed_contracts |-> d] :
            n \in 0..MaxNonce, d \in DeployedLists}

\* the discovered lists handed to the plan generator: what discovery returns for
\* some files, that is, categorised and sorted
PlanPool ==
  {descriptor(FALSE, N_all_traits, <<"contracts", N_all_traits>>,
              "contracts directory"),
   descriptor(FALSE, N_cxd_token, <<"contracts", N_cxd_token>>,
              "clarinet_toml"),
   descriptor(FALSE, N_zzz_unrelated, <<N_zzz_unrelated>>, "any .clar files")}

\* the statuses the plan generator is called with: those of at most one history
\* record and one manifest
PlanLocalStatuses ==
  {ls \in LocalStatuses : Len(ls.deployment_history) <= 1 /\ Len(ls.manifests) <= 1}

DiscoveredLists ==
  {sort_contracts_by_generic_dependencies(s) : s \in SeqsUpTo(PlanPool, MaxPlanLen)}

\* a .clar file
clar(loc, stem) == [loc |-> loc, stem |-> stem]

\* a manifest entry: [contracts.<name>] path = "<path>"
entry(name, path) == [name |-> name, path |-> path]

NoToml ==
  [exists |-> FALSE, parses |-> FALSE, contracts |-> <<>>,
   regex_matches |-> << <<>>, <<>>, <<>> >>]

\* nothing at all
ProjectEmpty ==
  [toml |-> NoToml, tree |-> <<>>, history |-> <<>>, manifests |-> <<>>, env |-> "absent"]

\* a Clarinet project: the manifest names two files that exist and one that does
\* not; one more contract lies under tests/; a deployment manifest, no history
ProjectClarinet ==
  [toml |-> [exists |-> TRUE, parses |-> TRUE,
             contracts |-> <<entry(N_utils, <<"contracts", N_utils>>),
                             entry(N_cxd_token, <<"contracts", N_cxd_token>>),
                             entry(N_dex_factory, <<"contracts", N_dex_factory>>)>>,
             regex_matches |-> << <<>>, <<>>, <<>> >>],
   tree |-> <<clar(<<"contracts">>, N_cxd_token), clar(<<"contracts">>, N_utils),
              clar(<<"tests", "contracts">>, N_mock_token)>>,
   history |-> <<>>,
   manifests |-> <<[path |-> "deployment/manifest.json", readable |-> TRUE,
                    json |-> [deployment |->
                                [successful |-> <<[name |-> N_cxd_token,
                                                   tx_id |-> "0x1"]>>]]]>>,
   env |-> "ok"]

\* no manifest: one file under contracts/, one at the top; a history file
ProjectScan ==
  [toml |-> NoToml,
   tree |-> <<clar(<<"contracts">>, N_all_traits), clar(<<>>, N_Utils)>>,
   history |-> <<[path |-> "deployment/history.json", readable |-> TRUE,
                  json |-> <<history_record(1)>>]>>,
   manifests |-> <<>>,
   env |-> "no_network"]

\* a manifest the TOML parser rejects, read by the regex fallback; an unreadable
\* deployment manifest beside a readable one; a history file two globs match
ProjectManual ==
  [toml |-> [exists |-> TRUE, parses |-> FALSE, contracts |-> <<>>,
             regex_matches |->
               << <<entry(N_oracle_aggregator, <<"src", N_oracle_aggregator>>)>>,
                  <<>>,
                  <<entry(N_zzz_unrelated, <<N_zzz_unrelated>>)>> >>],
   tree |-> <<clar(<<"src">>, N_oracle_aggregator), clar(<<>>, N_zzz_unrelated)>>,
   history |-> <<[path |-> ".stacksorbit/deployment_history.json", readable |-> TRUE,
                  json |-> <<history_record(1)>>]>>,
   manifests |-> <<[path |-> ".stacksorbit/manifest.json", readable |-> FALSE,
                    json |-> <<>>],
                   [path |-> "out/testnet-manifest.json", readable |-> TRUE,
                    json |-> [deployment |->
                                [successful |-> <<[name |-> N_oracle_aggregator,
                                                   tx_id |-> "0x4"]>>]]]>>,
   env |-> "ok"]

\* a single file at the top of the directory and nothing else
ProjectRootOnly ==
  [toml |-> NoToml, tree |-> <<clar(<<>>, N_dex_factory)>>,
   history |-> <<>>, manifests |-> <<>>, env |-> "ok"]

\* a manifest the TOML parser rejects and in which the only regex match names a
\* file that does not exist; one file under contracts/
ProjectBroken ==
  [toml |-> [exists |-> TRUE, parses |-> FALSE, contracts |-> <<>>,
             regex_matches |->
               << <<>>, <<>>, <<entry(N_governance_dao, <<N_governance_dao>>)>> >>],
   tree |-> <<clar(<<"contracts">>, N_fee_manager)>>,
   history |-> <<>>, manifests |-> <<>>, env |-> "absent"]

\* one contract and one bad artifact: a deployment manifest that is valid JSON of
\* another shape, a list
ProjectBadArtifacts ==
  [toml |-> NoToml, tree |-> <<clar(<<"contracts">>, N_cxd_token)>>,
   history |-> <<>>,
   manifests |-> <<[path |-> "deployment/manifest.json", readable |-> TRUE,
                    json |-> JsonList]>>,
   env |-> "ok"]

\* what a directory may hold
Projects ==
  {ProjectEmpty, ProjectClarinet, ProjectScan, ProjectManual, ProjectRootOnly,
   ProjectBroken, ProjectBadArtifacts}

\* a string of n characters c
repeat(c, n) == [i \in 1..n |-> c]

\* the letters of a word
Devnet == <<"d", "e", "v", "n", "e", "t">>

Testnet == <<"t", "e", "s", "t", "n", "e", "t">>

Mainnet == <<"m", "a", "i", "n", "n", "e", "t">>

\* the values a configuration file may give each variable: right ones, and ones
\* with each defect (a key of 63 and of 9 characters, an address with the wrong
\* first letter and one that is too short, a network that is none of the three)
ConfigValues ==
  [DEPLOYER_PRIVKEY |-> {repeat("a", 64), repeat("a", 63), repeat("k", 9)},
   SYSTEM_ADDRESS |-> {<<"S">> \o repeat("P", 40), <<"T">> \o repeat("P", 40),
                       <<"S">> \o repeat("P", 9), <<>>},
   NETWORK |-> {Devnet, Testnet, Mainnet, <<"l", "o", "c", "a", "l">>}]

\* the configurations handed to the validator: every variable present, or one
\* of them absent
Configs ==
  UNION {{config \in [keys -> UNION {ConfigValues[k] : k \in keys}] :
            \A k \in keys : config[k] \in ConfigValues[k]} :
           keys \in {{"DEPLOYER_PRIVKEY", "SYSTEM_ADDRESS", "NETWORK"},
                     {"DEPLOYER_PRIVKEY", "SYSTEM_ADDRESS"},
                     {"SYSTEM_ADDRESS", "NETWORK"}}}

\* the address the monitor watches
SystemAddress == <<"S", "P", "1">>

\* the deployers of the contracts a listing may hold
Deployers == {SystemAddress, <<"S", "T", "2">>}

\* contract_id of a contract of the given deployer
contract_id_of(deployer, name) == deployer \o <<".">> \o name

\* the final responses of a request whose JSON bodies are jsons (requests follows
\* redirects, so the final status is 2xx, 4xx or 5xx, or there is none)
Responses(jsons) ==
  {[kind |-> "timeout"], [kind |-> "refused"]}
    \cup {[kind |-> "http", code |-> c, is_json |-> FALSE] : c \in {200, 404, 500}}
    \cup {[kind |-> "http", code |-> 500, is_json |-> TRUE, json |-> j] : j \in jsons}
    \cup {[kind |-> "http", code |-> 200, is_json |-> TRUE, json |-> j] : j \in jsons}

\* bodies of /v2/info
InfoBodies ==
  {[stacks_tip_height |-> 7, network_id |-> "testnet"], [server_version |-> "2.5"]}

\* bodies of /v2/accounts/<address>
AccountBodies == {[nonce |-> n, balance |-> "1000000"] : n \in 0..MaxNonce}

\* bodies of /v2/accounts/<address> that the polls of the monitor are told of,
\* one of them without a nonce
PolledAccountBodies ==
  {[nonce |-> n, balance |-> "1000000"] : n \in 0..MaxPolledNonce}
    \cup {[balance |-> "1000000"]}

\* the names the verification is asked about
VerifyNames == {N_cxd_token, N_utils, N_all_traits}

\* bodies of /v2/accounts/<address>/contracts: listings of up to MaxListed
\* contracts, one of them of another deployer, and a body without 'contracts'
ListedContracts ==
  {[contract_id |-> contract_id_of(SystemAddress, n)] : n \in VerifyNames}
    \cup {[contract_id |-> contract_id_of(d, N_dex_factory)] : d \in Deployers \ {SystemAddress}}

ContractBodies ==
  {[contracts |-> l] : l \in SeqsUpTo(ListedContracts, MaxListed)}
    \cup {[results |-> <<>>]}

\* what a request of a polling loop meets: no answer, or a 200 answer with one
\* of the bodies
PollResponses(jsons) ==
  {[kind |-> "timeout"]}
    \cup {[kind |-> "http", code |-> 200, is_json |-> TRUE, json |-> j] : j \in jsons}

\* a server that accepts the request and never answers
Silent == [kind |-> "silent"]

\* what a request meets when session.get is given no timeout argument
\* (self.session.timeout = 30 sets an attribute that requests never reads):
\* beside the answers, the call may never return
without_timeout(responses) == responses \cup {Silent}

\* the transactions a poll of wait_for_transaction is told of
TxBodies ==
  {[tx_id |-> "0x01", tx_status |-> st] :
     st \in {"pending", "success", "error", "abort_by_response"}}
    \cup {[tx_id |-> "0x01"]}

\* the overall timeouts wait_for_transaction is called with, in seconds
WaitTimeouts == {0, MaxTimeout}

\* the listings the dashboard's polls meet
ListingBodies ==
  {[contracts |-> <<[contract_id |-> contract_id_of(SystemAddress, N_cxd_token)]>>]}

\* the entries the patterns of the manual parse may match in a manifest
ManualEntries ==
  {entry(N_oracle_aggregator, <<"src", N_oracle_aggregator>>),
   entry(N_zzz_unrelated, <<N_zzz_unrelated>>)}

\* what one pattern matches: nothing, one entry or both
ManualMatches == SeqsUpTo(ManualEntries, 2) \ {<<e, e>> : e \in ManualEntries}

\* manifests that the manual parse reads with files that exist or not. The second
\* pattern is the first one followed by a depends_on list, so it matches nothing
\* where the first matches nothing
ManualContents ==
  {[toml |-> [exists |-> TRUE, parses |-> FALSE, contracts |-> <<>>,
              regex_matches |-> m],
    tree |-> tree, history |-> <<>>, manifests |-> <<>>, env |-> "absent"] :
     m \in {t \in ManualMatches \X ManualMatches \X ManualMatches :
              t[2] = <<>> \/ t[2] = t[1]},
     tree \in {<<>>, <<clar(<<"src">>, N_oracle_aggregator)>>,
               <<clar(<<>>, N_zzz_unrelated)>>,
               <<clar(<<"src">>, N_oracle_aggregator), clar(<<>>, N_zzz_unrelated)>>}}

\* the options of the deploy command
DeployOptions ==
  [skip_checks : BOOLEAN, force : BOOLEAN, dry_run : BOOLEAN]

\* what the imported configuration manager and deployer answer: is the
\* configuration valid, do the pre-deployment checks pass, did a contract fail
DeployAnswers ==
  [is_valid : BOOLEAN, pre_checks : BOOLEAN, failed : BOOLEAN]

\* the --verify lists: one to MaxExpected names
ExpectedLists == SeqsUpTo(VerifyNames, MaxExpected) \ {<<>>}

-----------------------------------------------------------------------------
(* The dashboard (src/enhanced_dashboard.py): the background worker and the
   display routine share self.current_data and self.is_running *)

\* the threads of the polling programs
Threads == {"worker", "display", "monitor_worker", "monitor_main", "waiter"}

\* the fields of self.current_data the worker writes
Fields == {"api_status", "account_info", "deployed_contracts", "network_stats"}

\* EnhancedDashboard.__init__, with the SYSTEM_ADDRESS of the configuration; the
\* empty list and the empty dictionary are both <<>>
dashboard_init(address) ==
  [is_running |-> FALSE,
   address |-> address,
   metrics |-> [api_requests |-> 0, errors |-> 0],
   current_data |-> [api_status |-> [status |-> "checking"],
                     account_info |-> None,
                     deployed_contracts |-> <<>>,
                     network_stats |-> <<>>]]

\* what no poll has written and no accessor has fetched yet
observed_init ==
  [poll_of |-> [f \in Fields |-> 0],
   fetched |-> [account_info |-> [ok |-> FALSE, value |-> None],
                deployed_contracts |-> [ok |-> FALSE, value |-> <<>>]],
   nonce |-> [seen |-> FALSE, last |-> 0, largest |-> 0]]

\* the display has read nothing in this pass
shown_init == [header |-> 0, api_status |-> 0, account_info |-> 0,
               deployed_contracts |-> 0, network_stats |-> 0]

\* wait_for_transaction has not been called
wait_init == [timeout |-> 0, start_time |-> 0, polls |-> <<>>, returned |-> None]

\* DeploymentMonitor.__init__; callback is the argument start_monitoring hands to
\* the worker, None until then
monitor_init == [is_monitoring |-> FALSE, address |-> NoAddress,
                 deployment_history |-> <<>>, callback |-> None]

\* no polling program has been started
PollingInit ==
  /\ dashboard = dashboard_init(NoAddress)
  /\ monitor = monitor_init
  /\ pc = [t \in Threads |-> "idle"]
  /\ shown = shown_init
  /\ observed = observed_init
  /\ wait = wait_init
  /\ now = 0

\* the head of a polling loop, 'while flag:': into the body or out of the loop
loop_head(running) == IF running THEN "body" ELSE "done"

\* start_dashboard, of a dashboard made with or without an address in its
\* configuration: the flag is set, the worker thread is started, and the calling
\* thread enters _interactive_dashboard
StartDashboard ==
  /\ UNCHANGED <<call, detector_vars>>
  /\ \A t \in Threads : pc[t] = "idle"
  /\ \E address \in {NoAddress, SystemAddress} :
       dashboard' = [dashboard EXCEPT !.is_running = TRUE, !.address = address]
  /\ pc' = [pc EXCEPT !["worker"] = "loop", !["display"] = "loop"]
  /\ UNCHANGED <<monitor, shown, observed, wait, now>>

\* _background_monitoring, 'while self.is_running:', and the first statement of
\* _update_monitoring_data, which counts the poll
WorkerLoop ==
  /\ UNCHANGED <<call, detector_vars>>
  /\ pc["worker"] = "loop"
  /\ dashboard.is_running => dashboard.metrics.api_requests < MaxPolls
  /\ IF loop_head(dashboard.is_running) = "body"
     THEN /\ dashboard' = [dashboard EXCEPT !.metrics.api_requests = @ + 1]
          /\ pc' = [pc EXCEPT !["worker"] = "api_status"]
     ELSE /\ pc' = [pc EXCEPT !["worker"] = "done"]
          /\ UNCHANGED dashboard
  /\ UNCHANGED <<monitor, shown, observed, wait, now>>

\* self.current_data['api_status'] = self.monitor.check_api_status()
WorkerApiStatus ==
  /\ UNCHANGED <<call, detector_vars>>
  /\ pc["worker"] = "api_status"
  /\ \E response \in PollResponses(InfoBodies) :
       dashboard' = [dashboard EXCEPT !.current_data.api_status =
                                        check_api_status(response).value]
  /\ observed' = [observed EXCEPT !.poll_of["api_status"] =
                                     dashboard.metrics.api_requests]
  /\ pc' = [pc EXCEPT !["worker"] = "account_info"]
  /\ UNCHANGED <<monitor, shown, wait, now>>

\* if address: self.current_data['account_info'] = self.monitor.get_account_info(address)
WorkerAccountInfo ==
  /\ UNCHANGED <<call, detector_vars>>
  /\ pc["worker"] = "account_info"
  /\ IF dashboard.address = NoAddress
     THEN /\ pc' = [pc EXCEPT !["worker"] = "deployed_contracts"]
          /\ UNCHANGED <<dashboard, observed>>
     ELSE \E response \in without_timeout(PollResponses(AccountBodies)) :
            IF response = Silent
            THEN /\ pc' = [pc EXCEPT !["worker"] = "blocked"]
                 /\ UNCHANGED <<dashboard, observed>>
            ELSE LET fetch == fetch_json(response)
                     info == get_account_info(response).value
                 IN  /\ pc' = [pc EXCEPT !["worker"] = "deployed_contracts"]
                     /\ dashboard' = [dashboard EXCEPT !.current_data.account_info = info]
                     /\ observed' =
                          [observed EXCEPT
                             !.poll_of["account_info"] = dashboard.metrics.api_requests,
                             !.fetched.account_info =
                               IF fetch.raised THEN @ ELSE [ok |-> TRUE, value |-> info]]
  /\ UNCHANGED <<monitor, shown, wait, now>>

\* if address: self.current_data['deployed_contracts'] =
\*   self.monitor.get_deployed_contracts(address)
WorkerDeployedContracts ==
  /\ UNCHANGED <<call, detector_vars>>
  /\ pc["worker"] = "deployed_contracts"
  /\ IF dashboard.address = NoAddress
     THEN /\ pc' = [pc EXCEPT !["worker"] = "network_stats"]
          /\ UNCHANGED <<dashboard, observed>>
     ELSE \E response \in without_timeout(PollResponses(ListingBodies)) :
            IF response = Silent
            THEN /\ pc' = [pc EXCEPT !["worker"] = "blocked"]
                 /\ UNCHANGED <<dashboard, observed>>
            ELSE LET fetch == fetch_json(response)
                     contracts == get_deployed_contracts(response).value
                 IN  /\ pc' = [pc EXCEPT !["worker"] = "network_stats"]
                     /\ dashboard' = [dashboard EXCEPT
                                        !.current_data.deployed_contracts = contracts]
                     /\ observed' =
                          [observed EXCEPT
                             !.poll_of["deployed_contracts"] =
                               dashboard.metrics.api_requests,
                             !.fetched.deployed_contracts =
                               IF fetch.raised THEN @
                               ELSE [ok |-> TRUE, value |-> contracts]]
  /\ UNCHANGED <<monitor, shown, wait, now>>

\* _get_network_stats (uptime and error_rate, which the claims do not read, are
\* left out)
get_network_stats(current_data, metrics) ==
  [block_height |-> get_or(current_data.api_status, "block_height", 0),
   network_id |-> get_or(current_data.api_status, "network_id", "unknown"),
   total_requests |-> metrics.api_requests]

\* self.current_data['network_stats'] = self._get_network_stats()
WorkerNetworkStats ==
  /\ UNCHANGED <<call, detector_vars>>
  /\ pc["worker"] = "network_stats"
  /\ dashboard' = [dashboard EXCEPT !.current_data.network_stats =
                                       get_network_stats(dashboard.current_data,
                                                         dashboard.metrics)]
  /\ observed' = [observed EXCEPT !.poll_of["network_stats"] =
                                     dashboard.metrics.api_requests]
  /\ pc' = [pc EXCEPT !["worker"] = "sleep"]
  /\ UNCHANGED <<monitor, shown, wait, now>>

\* time.sleep(self.update_interval)
WorkerSleep ==
  /\ UNCHANGED <<call, detector_vars>>
  /\ pc["worker"] = "sleep"
  /\ pc' = [pc EXCEPT !["worker"] = "loop"]
  /\ UNCHANGED <<dashboard, monitor, shown, observed, wait, now>>

\* _interactive_dashboard, 'while self.is_running:'
DisplayLoop ==
  /\ UNCHANGED <<call, detector_vars>>
  /\ pc["display"] = "loop"
  /\ pc' = [pc EXCEPT !["display"] =
                        IF loop_head(dashboard.is_running) = "body" THEN "header"
                        ELSE "done"]
  /\ shown' = shown_init
  /\ UNCHANGED <<dashboard, monitor, observed, wait, now>>

\* the reads of _display_dashboard and _display_overview, in program order: the
\* place the display is at, the field it reads there, and the place it goes to
display_reads ==
  << [at |-> "header", field |-> "network_stats", to |-> "api_status"],
     [at |-> "api_status", field |-> "api_status", to |-> "account_info"],
     [at |-> "account_info", field |-> "account_info", to |-> "deployed_contracts"],
     [at |-> "deployed_contracts", field |-> "deployed_contracts", to |-> "network_stats"],
     [at |-> "network_stats", field |-> "network_stats", to |-> "input"] >>

\* one read of self.current_data[field] by the display: it sees what the worker
\* wrote last, and the model notes which poll that was
DisplayRead ==
  /\ UNCHANGED <<call, detector_vars>>
  /\ \E i \in DOMAIN display_reads :
       /\ pc["display"] = display_reads[i].at
       /\ shown' = [shown EXCEPT ![display_reads[i].at] =
                                   observed.poll_of[display_reads[i].field]]
       /\ pc' = [pc EXCEPT !["display"] = display_reads[i].to]
  /\ UNCHANGED <<dashboard, monitor, observed, wait, now>>

\* the wait for a key and _handle_keypress: 'q' calls stop_dashboard, which
\* clears the flag; no key, or a key that changes nothing here, leaves it
DisplayInput ==
  /\ UNCHANGED <<call, detector_vars>>
  /\ pc["display"] = "input"
  /\ \E key \in {"q", "none"} :
       dashboard' = [dashboard EXCEPT !.is_running = IF key = "q" THEN FALSE ELSE @]
  /\ pc' = [pc EXCEPT !["display"] = "loop"]
  /\ UNCHANGED <<monitor, shown, observed, wait, now>>

-----------------------------------------------------------------------------
(* The monitor's follow mode (src/deployment_monitor.py): the worker thread
   runs _monitoring_loop while the main thread waits for Ctrl+C *)

\* start_monitoring, without a callback as main() calls it for --follow or with
\* one: the flag is set, the worker thread is started, and the main thread waits
StartMonitoring ==
  /\ UNCHANGED <<call, detector_vars>>
  /\ \A t \in Threads : pc[t] = "idle"
  /\ \E address \in {NoAddress, SystemAddress}, callback \in {None, [py |-> "function"]} :
       monitor' = [monitor EXCEPT !.is_monitoring = TRUE, !.address = address,
                                  !.callback = callback]
  /\ pc' = [pc EXCEPT !["monitor_worker"] = "loop", !["monitor_main"] = "follow"]
  /\ UNCHANGED <<dashboard, shown, observed, wait, now>>

\* _monitoring_loop, 'while self.is_monitoring:'
MonitorLoop ==
  /\ UNCHANGED <<call, detector_vars>>
  /\ pc["monitor_worker"] = "loop"
  /\ pc' = [pc EXCEPT !["monitor_worker"] =
                        IF loop_head(monitor.is_monitoring) = "body"
                        THEN "check_deployments" ELSE "done"]
  /\ UNCHANGED <<dashboard, monitor, shown, observed, wait, now>>

\* a check that records every deployment the nonce counts beyond the records
analyze_new_deployments_up_to(history, nonce, address) ==
  history \o [i \in 1..(nonce - Len(history)) |-> [nonce |-> nonce, address |-> address]]

\* _analyze_new_deployment: one record is appended
analyze_new_deployment(history, nonce, address) ==
  Append(history, [nonce |-> nonce, address |-> address])

\* _check_for_new_deployments: nothing without an address or without account
\* info; a record when the nonce exceeds the number of records
check_for_new_deployments(history, address, account_info) ==
  IF address = NoAddress \/ account_info = None THEN history
  ELSE IF get_or(account_info, "nonce", 0) > Len(history)
       THEN analyze_new_deployment(history, get_or(account_info, "nonce", 0), address)
       ELSE history

\* what a poll of the monitor has observed: no nonce without account info, else
\* account_info.get('nonce', 0); the model notes it and the largest one so far
observed_nonce(seen_so_far, account_info) ==
  IF account_info = None
  THEN [seen_so_far EXCEPT !.seen = FALSE]
  ELSE [seen |-> TRUE, last |-> get_or(account_info, "nonce", 0),
        largest |-> IF get_or(account_info, "nonce", 0) > seen_so_far.largest
                    THEN get_or(account_info, "nonce", 0) ELSE seen_so_far.largest]

\* the call of _check_for_new_deployments in the loop
MonitorCheckDeployments ==
  /\ UNCHANGED <<call, detector_vars>>
  /\ pc["monitor_worker"] = "check_deployments"
  /\ IF monitor.address = NoAddress
     THEN /\ pc' = [pc EXCEPT !["monitor_worker"] = "check_health"]
          /\ observed' = [observed EXCEPT !.nonce = observed_nonce(@, None)]
          /\ UNCHANGED monitor
     ELSE \E response \in without_timeout(PollResponses(PolledAccountBodies)) :
            IF response = Silent
            THEN /\ pc' = [pc EXCEPT !["monitor_worker"] = "blocked"]
                 /\ UNCHANGED <<monitor, observed>>
            ELSE /\ pc' = [pc EXCEPT !["monitor_worker"] = "check_health"]
                 /\ observed' =
                      [observed EXCEPT !.nonce =
                         observed_nonce(@, get_account_info(response).value)]
                 /\ monitor' =
                      [monitor EXCEPT !.deployment_history =
                         check_for_new_deployments(@, monitor.address,
                                                   get_account_info(response).value)]
  /\ UNCHANGED <<dashboard, shown, wait, now>>

\* _check_network_health: check_api_status is called (with its own timeout), a
\* warning may be logged, nothing is kept
MonitorCheckHealth ==
  /\ UNCHANGED <<call, detector_vars>>
  /\ pc["monitor_worker"] = "check_health"
  /\ \E response \in PollResponses(InfoBodies) :
       check_api_status(response).raised = FALSE
  /\ pc' = [pc EXCEPT !["monitor_worker"] = "callback"]
  /\ UNCHANGED <<dashboard, monitor, shown, observed, wait, now>>

\* the handler of the loop, 'except Exception as e:': the error is logged and
\* the worker goes to the longer sleep
monitoring_error_handler == "error_sleep"

\* get_monitoring_status, of which the loop keeps nothing: with an address it
\* fetches the account and the contracts without a timeout, and returns unless
\* one of the two requests never comes back
monitoring_status_returns(address, account_response, listing_response) ==
  address = NoAddress \/ Silent \notin {account_response, listing_response}

\* 'if callback: callback(self.get_monitoring_status())': a callback returns or
\* raises, and what it raises reaches the handler of the loop
MonitorCallback ==
  /\ UNCHANGED <<call, detector_vars>>
  /\ pc["monitor_worker"] = "callback"
  /\ IF monitor.callback = None
     THEN pc' = [pc EXCEPT !["monitor_worker"] = "sleep"]
     ELSE \E account_response \in without_timeout(PollResponses(AccountBodies)),
             listing_response \in without_timeout(PollResponses(ListingBodies)),
             raised \in BOOLEAN :
            pc' = [pc EXCEPT !["monitor_worker"] =
                     IF ~monitoring_status_returns(monitor.address, account_response,
                                                   listing_response)
                     THEN "blocked"
                     ELSE IF raised THEN monitoring_error_handler ELSE "sleep"]
  /\ UNCHANGED <<dashboard, monitor, shown, observed, wait, now>>

\* time.sleep(10)
MonitorSleep ==
  /\ UNCHANGED <<call, detector_vars>>
  /\ pc["monitor_worker"] = "sleep"
  /\ pc' = [pc EXCEPT !["monitor_worker"] = "loop"]
  /\ UNCHANGED <<dashboard, monitor, shown, observed, wait, now>>

\* time.sleep(30) in the handler, then the head of the loop again
MonitorErrorSleep ==
  /\ UNCHANGED <<call, detector_vars>>
  /\ pc["monitor_worker"] = "error_sleep"
  /\ pc' = [pc EXCEPT !["monitor_worker"] = "loop"]
  /\ UNCHANGED <<dashboard, monitor, shown, observed, wait, now>>

\* Ctrl+C in main()'s wait, then stop_monitoring: the flag is cleared
StopMonitoring ==
  /\ UNCHANGED <<call, detector_vars>>
  /\ pc["monitor_main"] = "follow"
  /\ monitor' = [monitor EXCEPT !.is_monitoring = FALSE]
  /\ pc' = [pc EXCEPT !["monitor_main"] = "done"]
  /\ UNCHANGED <<dashboard, shown, observed, wait, now>>

-----------------------------------------------------------------------------
(* wait_for_transaction (src/deployment_monitor.py) *)

\* time.sleep(5) between two polls, in seconds
PollSleep == 5

\* the status a poll observes: tx_info.get('tx_status', 'unknown') when the
\* fetch gave a transaction, and nothing when it gave None
observed_status(tx_info) ==
  IF tx_info = None THEN "none" ELSE get_or(tx_info, "tx_status", "unknown")

\* the statuses that end the wait
ends_wait(status) == status \in {"success", "error"}

\* the call: start_time = time.time(), last_status = None
StartWait ==
  /\ UNCHANGED <<call, detector_vars>>
  /\ \A t \in Threads : pc[t] = "idle"
  /\ \E timeout \in WaitTimeouts :
       wait' = [timeout |-> timeout, start_time |-> now, polls |-> <<>>,
                returned |-> None]
  /\ pc' = [pc EXCEPT !["waiter"] = "check"]
  /\ UNCHANGED <<dashboard, monitor, shown, observed, now>>

\* 'while time.time() - start_time < timeout:', and 'return None' after the loop
WaitCheck ==
  /\ UNCHANGED <<call, detector_vars>>
  /\ pc["waiter"] = "check"
  /\ pc' = [pc EXCEPT !["waiter"] =
                        IF now - wait.start_time < wait.timeout THEN "poll" ELSE "done"]
  /\ UNCHANGED <<dashboard, monitor, shown, observed, wait, now>>

\* one poll: get_transaction_info, then the tests on the status
WaitPoll ==
  /\ UNCHANGED <<call, detector_vars>>
  /\ pc["waiter"] = "poll"
  /\ \E response \in without_timeout(PollResponses(TxBodies)), latency \in 0..MaxLatency :
       IF response = Silent
       THEN /\ pc' = [pc EXCEPT !["waiter"] = "blocked"]
            /\ UNCHANGED <<wait, now>>
       ELSE LET tx_info == get_transaction_info(response).value
                status == observed_status(tx_info)
            IN  /\ now' = now + latency
                /\ wait' = [wait EXCEPT
                              !.polls = Append(@, status),
                              !.returned = IF ends_wait(status) THEN tx_info ELSE @]
                /\ pc' = [pc EXCEPT !["waiter"] =
                                      IF ends_wait(status) THEN "done" ELSE "sleep"]
  /\ UNCHANGED <<dashboard, monitor, shown, observed>>

\* time.sleep(5)
WaitSleep ==
  /\ UNCHANGED <<call, detector_vars>>
  /\ pc["waiter"] = "sleep"
  /\ now' = now + PollSleep
  /\ pc' = [pc EXCEPT !["waiter"] = "check"]
  /\ UNCHANGED <<dashboard, monitor, shown, observed, wait>>

-----------------------------------------------------------------------------
(* Specification of the detector: one instance, its calls, and the working
   directory changing under it *)

NoCall == [op |-> "none"]

\* __init__: the project root is given or is the working directory; the state is
\* the default one or the one an earlier process saved in the state file
Init ==
  /\ call = NoCall
  /\ project_root \in Dirs
  /\ cwd \in Dirs
  /\ use_conxian_mode \in BOOLEAN
  /\ fs \in [Dirs -> Projects]
  /\ \E d \in Dirs :
       state = [current_directory |-> d, previous_directory |-> NoDirectory,
                directory_history |-> <<>>]
  /\ contract_cache = <<>>
  /\ result = NoResult
  /\ error = NoError
  /\ PollingInit

\* os.chdir(d) by the program around the detector
Chdir(d) ==
  /\ cwd # d
  /\ cwd' = d
  /\ UNCHANGED <<call, project_root, use_conxian_mode, fs, state, contract_cache, result,
                 error>>
  /\ UNCHANGED polling_vars

\* detector.detect_and_analyze()
DetectAndAnalyze ==
  \E run \in {detect_and_analyze(state, contract_cache, cwd, project_root,
                                 use_conxian_mode, fs)} :
      /\ Len(run.state.directory_history) <= MaxHistory
      /\ state' = run.state
      /\ contract_cache' = run.cache
      /\ result' = (IF run.error = NoError THEN run.result ELSE result)
      /\ error' = run.error
      /\ UNCHANGED <<call, project_root, cwd, use_conxian_mode, fs>>
      /\ UNCHANGED polling_vars

\* detector.handle_directory_change(new_directory)
HandleDirectoryChange(new_directory) ==
  \E run \in {handle_directory_change(state, cwd, project_root, use_conxian_mode, fs,
                                      new_directory)} :
      /\ Len(run.state.directory_history) <= MaxHistory
      /\ state' = run.state
      /\ contract_cache' = run.cache
      /\ result' = (IF run.error = NoError THEN run.result ELSE result)
      /\ error' = run.error
      /\ UNCHANGED <<call, project_root, cwd, use_conxian_mode, fs>>
      /\ UNCHANGED polling_vars

Next ==
  \/ \E d \in Dirs : Chdir(d)
  \/ DetectAndAnalyze
  \/ \E d \in Dirs : HandleDirectoryChange(d)

Spec == Init /\ [][Next]_vars

-----------------------------------------------------------------------------
(* Specification of the detector in projects whose files are edited between
   its calls *)

\* what a directory holds before and after an edit
EditedProjects == {ProjectEmpty, ProjectClarinet, ProjectScan}

InitFiles ==
  /\ call = NoCall
  /\ project_root = "/a"
  /\ cwd \in Dirs
  /\ use_conxian_mode = FALSE
  /\ fs \in [Dirs -> EditedProjects]
  /\ \E d \in Dirs :
       state = [current_directory |-> d, previous_directory |-> NoDirectory,
                directory_history |-> <<>>]
  /\ contract_cache = <<>>
  /\ result = NoResult
  /\ error = NoError
  /\ PollingInit

\* files of directory d are added, removed or rewritten: it now holds project
EditFiles(d, project) ==
  /\ fs[d] # project
  /\ fs' = [fs EXCEPT ![d] = project]
  /\ UNCHANGED <<call, project_root, cwd, use_conxian_mode, state, contract_cache,
                 result, error>>
  /\ UNCHANGED polling_vars

NextFiles ==
  \/ \E d \in Dirs : Chdir(d)
  \/ DetectAndAnalyze
  \/ \E d \in Dirs : HandleDirectoryChange(d)
  \/ \E d \in Dirs, project \in EditedProjects : EditFiles(d, project)

SpecFiles == InitFiles /\ [][NextFiles]_vars

-----------------------------------------------------------------------------
(* Specification of the helpers: one helper is called with arguments drawn
   from the input sets, and the call and its result are recorded *)

InitFn ==
  /\ call = NoCall
  /\ project_root = "/a"
  /\ cwd = "/a"
  /\ use_conxian_mode = FALSE
  /\ fs = [d \in Dirs |-> ProjectEmpty]
  /\ state = [current_directory |-> "/a", previous_directory |-> NoDirectory,
              directory_history |-> <<>>]
  /\ contract_cache = <<>>
  /\ result = NoResult
  /\ error = NoError
  /\ PollingInit

\* _determine_contract_category(name), twice, in either mode
CallCategorize ==
  \E name \in NamePool, conxian_mode \in BOOLEAN :
    /\ call = NoCall
    /\ call' = [op |-> "determine_contract_category",
                contract_name |-> name,
                conxian_mode |-> conxian_mode,
                result |-> determine_contract_category(conxian_mode, name),
                again |-> determine_contract_category(conxian_mode, name)]
    /\ UNCHANGED <<detector_vars, polling_vars>>

\* _sort_contracts_by_generic_dependencies(contracts)
CallSort ==
  \E contracts \in SortInputs :
    /\ call = NoCall
    /\ call' = [op |-> "sort_contracts_by_generic_dependencies",
                contracts |-> contracts,
                result |-> sort_contracts_by_generic_dependencies(contracts)]
    /\ UNCHANGED <<detector_vars, polling_vars>>

\* _determine_deployment_mode(local_status, blockchain_status)
CallDetermineMode ==
  \E local_status \in LocalStatuses, blockchain_status \in BlockchainStatuses :
    /\ call = NoCall
    /\ call' = [op |-> "determine_deployment_mode",
                local_status |-> local_status,
                blockchain_status |-> blockchain_status,
                result |-> determine_deployment_mode(local_status, blockchain_status)]
    /\ UNCHANGED <<detector_vars, polling_vars>>

\* _get_contracts_to_skip(local_status, blockchain_status)
CallGetContractsToSkip ==
  \E local_status \in LocalStatuses, blockchain_status \in BlockchainStatuses :
    /\ call = NoCall
    /\ call' = [op |-> "get_contracts_to_skip",
                local_status |-> local_status,
                blockchain_status |-> blockchain_status,
                result |-> get_contracts_to_skip(local_status, blockchain_status)]
    /\ UNCHANGED <<detector_vars, polling_vars>>

\* _generate_generic_deployment_plan(detection, deployment_analysis), the analysis
\* being the one _analyze_deployment_status builds from the two statuses when the
\* cache holds the discovered list under the project root
CallGeneratePlan ==
  \E contracts \in DiscoveredLists,
     local_status \in PlanLocalStatuses, blockchain_status \in BlockchainStatuses :
    LET detection == [directory |-> "/a", contracts_found |-> Len(contracts),
                      contracts |-> contracts, directory_changed |-> FALSE]
        deployment_analysis ==
          analysis_of(("/a" :> contracts), "/a", local_status, blockchain_status)
    IN  /\ call = NoCall
        /\ call' = [op |-> "generate_generic_deployment_plan",
                    detection |-> detection,
                    deployment_analysis |-> deployment_analysis,
                    result |-> generate_generic_deployment_plan(detection,
                                                                deployment_analysis)]
        /\ UNCHANGED <<detector_vars, polling_vars>>

\* _validate_configuration(config_path), the file holding config_content
CallValidateConfiguration ==
  \E config_content \in Configs :
    /\ call = NoCall
    /\ call' = [op |-> "validate_configuration",
                config_content |-> config_content,
                result |-> validate_configuration(config_content)]
    /\ UNCHANGED <<detector_vars, polling_vars>>

\* monitor.check_api_status()
CallCheckApiStatus ==
  \E response \in Responses(InfoBodies) :
    /\ call = NoCall
    /\ call' = [op |-> "check_api_status", response |-> response,
                result |-> check_api_status(response)]
    /\ UNCHANGED <<detector_vars, polling_vars>>

\* monitor.get_account_info(address)
CallGetAccountInfo ==
  \E response \in Responses(AccountBodies) :
    /\ call = NoCall
    /\ call' = [op |-> "get_account_info", response |-> response,
                result |-> get_account_info(response)]
    /\ UNCHANGED <<detector_vars, polling_vars>>

\* monitor.get_deployed_contracts(address)
CallGetDeployedContracts ==
  \E response \in Responses(ContractBodies) :
    /\ call = NoCall
    /\ call' = [op |-> "get_deployed_contracts", response |-> response,
                result |-> get_deployed_contracts(response)]
    /\ UNCHANGED <<detector_vars, polling_vars>>

\* main() of the monitor, called with --verify <names> and with or without an
\* address
CallMainVerify ==
  \E expected_contracts \in ExpectedLists, address \in {NoAddress, SystemAddress},
     response \in Responses(ContractBodies) :
    /\ call = NoCall
    /\ call' = [op |-> "main_verify", expected_contracts |-> expected_contracts,
                address |-> address, response |-> response,
                result |-> main_verify(expected_contracts, address, response)]
    /\ UNCHANGED <<detector_vars, polling_vars>>

\* the analysis of detect_and_analyze written with json.dump and read back with
\* json.load
CallJsonRoundTrip ==
  \E contracts \in DiscoveredLists,
     local_status \in PlanLocalStatuses, blockchain_status \in BlockchainStatuses :
    LET detection == [directory |-> "/a", contracts_found |-> Len(contracts),
                      contracts |-> contracts, directory_changed |-> FALSE]
        deployment_analysis ==
          analysis_of(("/a" :> contracts), "/a", local_status, blockchain_status)
        plan == generate_generic_deployment_plan(detection, deployment_analysis)
    IN  \E to_skip \in orderings(deployment_analysis.contracts_to_skip),
           to_deploy \in orderings(deployment_analysis.contracts_to_deploy) :
          /\ call = NoCall
          /\ call' = [op |-> "json_round_trip",
                      deployment_analysis |-> deployment_analysis,
                      plan |-> plan,
                      result |-> json_round_trip(
                                   py_analysis(plan, deployment_analysis.deployment_mode,
                                               to_skip, to_deploy))]
          /\ UNCHANGED <<detector_vars, polling_vars>>

\* _parse_clarinet_toml_manually on a manifest
CallParseManually ==
  \E content \in ManualContents :
    /\ call = NoCall
    /\ call' = [op |-> "parse_clarinet_toml_manually", content |-> content,
                result |-> parse_clarinet_toml_manually(FALSE, content)]
    /\ UNCHANGED <<detector_vars, polling_vars>>

\* the deploy command, as main() hands it to run_command
CallRunCommandDeploy ==
  \E options \in DeployOptions, answers \in DeployAnswers :
    /\ call = NoCall
    /\ call' = [op |-> "run_command_deploy", options |-> options,
                answers |-> answers,
                result |-> run_command_deploy(options, answers)]
    /\ UNCHANGED <<detector_vars, polling_vars>>

NextFn ==
  \/ CallCategorize
  \/ CallSort
  \/ CallDetermineMode
  \/ CallGetContractsToSkip
  \/ CallGeneratePlan
  \/ CallValidateConfiguration
  \/ CallCheckApiStatus
  \/ CallGetAccountInfo
  \/ CallGetDeployedContracts
  \/ CallMainVerify
  \/ CallJsonRoundTrip
  \/ CallRunCommandDeploy
  \/ CallParseManually

SpecFn == InitFn /\ [][NextFn]_vars

-----------------------------------------------------------------------------
(* Specification of the polling programs: one of the dashboard, the monitor's
   follow mode and wait_for_transaction is started and runs; each thread that
   can take a step eventually takes one *)

InitPolling ==
  /\ call = NoCall
  /\ project_root = "/a"
  /\ cwd = "/a"
  /\ use_conxian_mode = FALSE
  /\ fs = [d \in Dirs |-> ProjectEmpty]
  /\ state = [current_directory |-> "/a", previous_directory |-> NoDirectory,
              directory_history |-> <<>>]
  /\ contract_cache = <<>>
  /\ result = NoResult
  /\ error = NoError
  /\ PollingInit

\* the steps of the dashboard's worker thread
WorkerStep ==
  \/ WorkerLoop
  \/ WorkerApiStatus
  \/ WorkerAccountInfo
  \/ WorkerDeployedContracts
  \/ WorkerNetworkStats
  \/ WorkerSleep

\* the steps of the monitor's worker thread
MonitorWorkerStep ==
  \/ MonitorLoop
  \/ MonitorCheckDeployments
  \/ MonitorCheckHealth
  \/ MonitorCallback
  \/ MonitorSleep
  \/ MonitorErrorSleep

\* the steps of the thread that called wait_for_transaction
WaiterStep ==
  \/ WaitCheck
  \/ WaitPoll
  \/ WaitSleep

NextPolling ==
  \/ StartDashboard
  \/ WorkerLoop
  \/ WorkerApiStatus
  \/ WorkerAccountInfo
  \/ WorkerDeployedContracts
  \/ WorkerNetworkStats
  \/ WorkerSleep
  \/ DisplayLoop
  \/ DisplayRead
  \/ DisplayInput
  \/ StartMonitoring
  \/ MonitorLoop
  \/ MonitorCheckDeployments
  \/ MonitorCheckHealth
  \/ MonitorCallback
  \/ MonitorSleep
  \/ MonitorErrorSleep
  \/ StopMonitoring
  \/ StartWait
  \/ WaitCheck
  \/ WaitPoll
  \/ WaitSleep

SpecPolling ==
  /\ InitPolling
  /\ [][NextPolling]_vars
  /\ WF_vars(WorkerStep)
  /\ WF_vars(MonitorWorkerStep)
  /\ WF_vars(WaiterStep)

-----------------------------------------------------------------------------
(* Properties of the categorizer and the sorter (checked under SpecFn) *)

\* the set of the elements of a sequence
Range(s) == {s[i] : i \in DOMAIN s}

\* the least element of a non-empty set of integers
Least(S) == CHOOSE x \in S : \A y \in S : x <= y

\* how often x occurs in the sequence s
occurrences(s, x) == Cardinality({i \in DOMAIN s : s[i] = x})

\* the category table the claim names: the eight generic labels in this order,
\* then the extended ones
claimed_categories(conxian_mode) ==
  generic_categories \o (IF conxian_mode THEN conxian_categories ELSE <<>>)

\* the positions of the categories with a keyword inside the lower-cased name
matching_categories(conxian_mode, contract_name) ==
  {i \in DOMAIN claimed_categories(conxian_mode) :
     \E k \in DOMAIN claimed_categories(conxian_mode)[i].patterns :
       is_substring(claimed_categories(conxian_mode)[i].patterns[k], lower(contract_name))}

\* C1: the categorizer returns the first category, in the order traits, tokens,
\* defi, oracle, dao, security, utilities, testing and then the extended ones, that
\* has a keyword inside the lower-cased name, and general when none has; a second
\* call with the same name gives the same category.
C1_CategorizerFirstMatch ==
  call.op = "determine_contract_category" =>
    LET table == claimed_categories(call.conxian_mode)
        hits == matching_categories(call.conxian_mode, call.contract_name)
    IN  /\ [i \in 1..8 |-> table[i].category] =
             <<"traits", "tokens", "defi", "oracle", "dao", "security", "utilities",
               "testing">>
        /\ call.result = IF hits = {} THEN "general" ELSE table[Least(hits)].category
        /\ call.again = call.result

\* a name with keywords of two categories (governance: defi and dao; dao: dao) was
\* categorised, and got the earlier one
C1_Witness ==
  /\ call.op = "determine_contract_category"
  /\ call.contract_name = N_governance_dao
  /\ Cardinality(matching_categories(call.conxian_mode, call.contract_name)) >= 2
  /\ call.result = "defi"

\* the priority the sorter is said to give each name: the index of the first
\* keyword of the flat list inside the lower-cased name, the length of the list
\* when there is none
claimed_priority ==
  [contract_name \in NamePool |->
     LET hits == {i \in DOMAIN priority_order :
                    is_substring(priority_order[i], lower(contract_name))}
     IN  IF hits = {} THEN Len(priority_order) ELSE Least(hits) - 1]

\* the names of a list of descriptors
name_sequence(contracts) == [i \in DOMAIN contracts |-> contracts[i].name]

\* C2: the sorter's output is in non-decreasing priority order, and the five names
\* zzz-unrelated, all-traits, cxd-token, dex-factory, oracle-aggregator come out
\* as all-traits, cxd-token, dex-factory, oracle-aggregator, zzz-unrelated
\* whatever their input order.
C2_SorterOrdersByPriority ==
  call.op = "sort_contracts_by_generic_dependencies" =>
    /\ \A i, j \in DOMAIN call.result :
         i < j => claimed_priority[call.result[i].name]
                    <= claimed_priority[call.result[j].name]
    /\ call.contracts \in FivePermutations =>
         name_sequence(call.result) =
           <<N_all_traits, N_cxd_token, N_dex_factory, N_oracle_aggregator,
             N_zzz_unrelated>>

\* the five names were sorted from the input order that begins with zzz-unrelated
\* and ends with all-traits
C2_Witness ==
  /\ call.op = "sort_contracts_by_generic_dependencies"
  /\ call.contracts \in FivePermutations
  /\ call.contracts[1].name = N_zzz_unrelated
  /\ call.contracts[5].name = N_all_traits
  /\ call.result[1].name = N_all_traits
  /\ call.result[5].name = N_zzz_unrelated

\* the well-formed entries of a list that have priority p, in list order
RECURSIVE with_priority(_, _)
with_priority(contracts, p) ==
  IF contracts = <<>> THEN <<>>
  ELSE LET c == Head(contracts)
           rest == with_priority(Tail(contracts), p)
       IN  IF c.py = "dict" /\ "name" \in DOMAIN c /\ c.name # <<>>
              /\ claimed_priority[c.name] = p
           THEN <<c>> \o rest
           ELSE rest

\* C3: the sorter is stable: for every priority, the contracts of that priority
\* come out in the order they went in.
C3_SorterStable ==
  call.op = "sort_contracts_by_generic_dependencies" =>
    \A p \in 0..Len(priority_order) :
      with_priority(call.result, p) = with_priority(call.contracts, p)

\* two different contracts of equal priority went in behind a contract of lower
\* priority, and came out in front of it in their input order
C3_Witness ==
  /\ call.op = "sort_contracts_by_generic_dependencies"
  /\ call.contracts = <<contract_named(N_zzz_unrelated, "src directory"),
                        contract_named(N_test_utils, "src directory"),
                        contract_named(N_utils, "clarinet_toml")>>
  /\ claimed_priority[N_test_utils] = claimed_priority[N_utils]
  /\ call.result = <<contract_named(N_test_utils, "src directory"),
                     contract_named(N_utils, "clarinet_toml"),
                     contract_named(N_zzz_unrelated, "src directory")>>

\* a descriptor with a non-empty name
well_formed(c) ==
  /\ c.py = "dict"
  /\ "name" \in DOMAIN c
  /\ Len(c.name) > 0

-----------------------------------------------------------------------------
(* Properties of discovery (checked under Spec) *)

\* the contracts the last call returned
discovered == result.detection.contracts

\* what each discovery strategy yields in the directory of the last detection, in
\* the order the strategies run: manifest parse, directory scan, structure scan
strategy_yields ==
  LET content == fs[result.detection.directory]
  IN  <<parse_generic_clarinet_toml(use_conxian_mode, content),
        generic_directory_scan(use_conxian_mode, content),
        scan_project_structures(use_conxian_mode, content)>>

\* C4: the descriptor list a discovery pass returns holds at most one descriptor
\* per contract name.
C4_OneDescriptorPerName ==
  result # NoResult =>
    \A i, j \in DOMAIN discovered :
      discovered[i].name = discovered[j].name => i = j

\* C5: when two strategies yield a contract of the same name, what the result
\* keeps under that name are descriptors of the first strategy that yields it,
\* exactly as that strategy built them (source and path), and none of a later one.
C5_FirstStrategyWins ==
  result # NoResult =>
    \A i \in DOMAIN discovered :
      \E k \in 1..3 :
        /\ discovered[i] \in Range(strategy_yields[k])
        /\ \A j \in 1..(k - 1) : discovered[i].name \notin names_of(strategy_yields[j])

\* the manifest, the directory scan and the structure scan all yield utils, and
\* the result keeps the manifest's descriptor of it
C5_Witness ==
  /\ result # NoResult
  /\ \A k \in 1..3 : N_utils \in names_of(strategy_yields[k])
  /\ \E i \in DOMAIN discovered :
       /\ discovered[i].name = N_utils
       /\ discovered[i].source = "clarinet_toml"
       /\ discovered[i].path = <<"contracts", N_utils>>

\* the manifest of the directory of the last detection exists and the TOML parser
\* rejects it
manifest_is_malformed ==
  /\ result # NoResult
  /\ fs[result.detection.directory].toml.exists
  /\ ~fs[result.detection.directory].toml.parses

\* the descriptors of a list that the manifest parse built
RECURSIVE manifest_sourced(_)
manifest_sourced(contracts) ==
  IF contracts = <<>> THEN <<>>
  ELSE IF Head(contracts).source = "clarinet_toml"
       THEN <<Head(contracts)>> \o manifest_sourced(Tail(contracts))
       ELSE manifest_sourced(Tail(contracts))

\* the [name, path] pairs the textual scan of a rejected manifest yields: those of
\* the first regex with a match
fallback_matches(content) ==
  LET hits == {i \in DOMAIN content.toml.regex_matches :
                 content.toml.regex_matches[i] # <<>>}
  IN  IF hits = {} THEN <<>> ELSE content.toml.regex_matches[Least(hits)]

\* C11 as claimed: with a manifest of invalid syntax the result holds no
\* manifest-sourced descriptor and every descriptor the directory scan found.
C11_MalformedManifestYieldsNothing ==
  manifest_is_malformed =>
    /\ manifest_sourced(discovered) = <<>>
    /\ Range(strategy_yields[2]) \subseteq Range(discovered)

\* C11 as amended: with a manifest of invalid syntax the manifest-sourced
\* descriptors of the result are those of the regex matches whose file exists (none
\* when nothing matches or no matched file exists), and every descriptor the
\* directory scan found under a name the manifest did not yield is returned.
C11_MalformedManifestFallsBack ==
  manifest_is_malformed =>
    LET content == fs[result.detection.directory]
        matches == fallback_matches(content)
        kept == {i \in DOMAIN matches : path_exists(content, matches[i].path)}
        scan == strategy_yields[2]
    IN  /\ {[name |-> d.name, path |-> d.path] : d \in Range(manifest_sourced(discovered))}
             = {matches[i] : i \in kept}
        /\ Len(manifest_sourced(discovered)) = Cardinality(kept)
        /\ \A d \in Range(scan) :
             d.name \notin {matches[i].name : i \in kept} =>
               occurrences(discovered, d) = occurrences(scan, d)

\* a rejected manifest whose regex match names an existing file: the result holds
\* the manifest's descriptor of oracle-aggregator, and the scan's of zzz-unrelated
C11_Witness ==
  /\ manifest_is_malformed
  /\ \E i \in DOMAIN discovered :
       discovered[i].name = N_oracle_aggregator /\ discovered[i].source = "clarinet_toml"
  /\ \E i \in DOMAIN discovered :
       discovered[i].name = N_zzz_unrelated /\ discovered[i].source = "any .clar files"

-----------------------------------------------------------------------------
(* Properties of the reconciler's helpers (checked under SpecFn) *)

\* C6: the mode is upgrade whenever the remote nonce is greater than 0, whatever
\* the local history; otherwise incremental when there is at least one local
\* history record; otherwise full.
C6_ModeSelection ==
  call.op = "determine_deployment_mode" =>
    LET nonce == IF "account_nonce" \in DOMAIN call.blockchain_status
                 THEN call.blockchain_status.account_nonce ELSE 0
        records == Len(call.local_status.deployment_history)
    IN  call.result = IF nonce > 0 THEN "upgrade"
                      ELSE IF records >= 1 THEN "incremental"
                      ELSE "full"

\* the nonce is positive and there is local history: the mode is upgrade
C6_Witness ==
  /\ call.op = "determine_deployment_mode"
  /\ "account_nonce" \in DOMAIN call.blockchain_status
  /\ call.blockchain_status.account_nonce > 0
  /\ Len(call.local_status.deployment_history) >= 1
  /\ call.result = "upgrade"

\* the names the remote snapshot lists as deployed
remote_names(blockchain_status) ==
  IF "deployed_contracts" \in DOMAIN blockchain_status
  THEN Range(blockchain_status.deployed_contracts) ELSE {}

\* the names the local manifests that were read list as successful
local_successful_names(local_status) ==
  {n \in NamePool :
     \E i \in DOMAIN local_status.manifests :
       /\ "deployment" \in DOMAIN local_status.manifests[i]
       /\ "successful" \in DOMAIN local_status.manifests[i].deployment
       /\ \E k \in DOMAIN local_status.manifests[i].deployment.successful :
            local_status.manifests[i].deployment.successful[k].name = n}

-----------------------------------------------------------------------------
(* Properties of the deployment analysis (checked under Spec) *)

\* C8: after every run, the deploy set is the set of the discovered names minus
\* the skip set.
C8_DeployIsDiscoveredMinusSkip ==
  result # NoResult =>
    result.deployment_analysis.contracts_to_deploy =
      names_of(discovered) \ result.deployment_analysis.contracts_to_skip

\* C9: in every deployment analysis whose mode is full, the skip set is empty.
C9_FullModeSkipsNothing ==
  (result # NoResult /\ result.deployment_analysis.deployment_mode = "full") =>
    result.deployment_analysis.contracts_to_skip = {}

\* C13: a bad local artifact (unreadable, not valid JSON, or of an unexpected
\* shape) never aborts the reconciler: no call lets an exception escape, and the
\* analysis it returns has a mode, a skip set and a deploy set.
C13_BadArtifactNeverAborts ==
  /\ error = NoError
  /\ result # NoResult =>
       /\ result.deployment_analysis.deployment_mode \in {"full", "incremental", "upgrade"}
       /\ IsFiniteSet(result.deployment_analysis.contracts_to_skip)
       /\ IsFiniteSet(result.deployment_analysis.contracts_to_deploy)

-----------------------------------------------------------------------------
(* Properties of validation, of the chain-state accessors and of the
   verification command (checked under SpecFn) *)

\* the defects of the claim that a configuration has
defects_of(config_content) ==
  {d \in {"private key", "address", "network"} :
     \/ /\ d = "private key"
        /\ "DEPLOYER_PRIVKEY" \in DOMAIN config_content
        /\ Len(config_content["DEPLOYER_PRIVKEY"]) # 64
     \/ /\ d = "address"
        /\ "SYSTEM_ADDRESS" \in DOMAIN config_content
        /\ \/ Len(config_content["SYSTEM_ADDRESS"]) # 41
           \/ config_content["SYSTEM_ADDRESS"][1] # "S"
     \/ /\ d = "network"
        /\ "NETWORK" \in DOMAIN config_content
        /\ config_content["NETWORK"] \notin {Devnet, Testnet, Mainnet}}

\* C19: a configuration with a private key whose length is not 64, an address
\* that does not start with S or whose length is not 41, or a network that is
\* none of devnet, testnet, mainnet is reported invalid, with one entry in the
\* error list per defect.
C19_ValidationReportsEveryDefect ==
  call.op = "validate_configuration" =>
    LET defects == defects_of(call.config_content)
    IN  /\ defects # {} => ~call.result.is_valid
        /\ (\A k \in DOMAIN call.config_content : Len(call.config_content[k]) > 0)
             /\ DOMAIN call.config_content = Range(required_vars)
             => Len(call.result.missing) = Cardinality(defects)

\* did the request fail: no response, or a response that is not 2xx
network_failure(response) ==
  \/ response.kind \in {"timeout", "refused"}
  \/ response.kind = "http" /\ response.code \notin 200..299

listed_names(response) ==
  IF network_failure(response) \/ ~response.is_json
     \/ "contracts" \notin DOMAIN response.json
  THEN {}
  ELSE {n \in NamePool :
          \E i \in DOMAIN response.json.contracts, deployer \in Deployers :
            response.json.contracts[i].contract_id = contract_id_of(deployer, n)}

-----------------------------------------------------------------------------
(* Properties of the plan (checked under SpecFn) *)

\* C10: in mode upgrade the plan's ordered list holds no contract whose name is in
\* the skip set; in modes incremental and full it holds every discovered contract,
\* those of the skip set included.
C10_PlanFiltersOnlyInUpgrade ==
  call.op = "generate_generic_deployment_plan" =>
    LET plan == call.result
        skip == call.deployment_analysis.contracts_to_skip
        contracts == call.detection.contracts
    IN  /\ plan.deployment_order = name_sequence(plan.filtered_contracts)
        /\ plan.deployment_mode = "upgrade" =>
             \A i \in DOMAIN plan.deployment_order : plan.deployment_order[i] \notin skip
        /\ plan.deployment_mode \in {"incremental", "full"} =>
             \A c \in Range(contracts) :
               occurrences(plan.filtered_contracts, c) = occurrences(contracts, c)

\* an upgrade plan for two discovered contracts, one of them in the skip set: the
\* plan lists the other one only
C10_Witness ==
  /\ call.op = "generate_generic_deployment_plan"
  /\ call.result.deployment_mode = "upgrade"
  /\ Len(call.detection.contracts) = 2
  /\ call.detection.contracts[1].name \in call.deployment_analysis.contracts_to_skip
  /\ call.detection.contracts[2].name \notin call.deployment_analysis.contracts_to_skip
  /\ call.result.deployment_order = <<call.detection.contracts[2].name>>

-----------------------------------------------------------------------------
(* Properties of the polling programs (checked under SpecPolling) *)

\* the places of the display's pass where it reads a field that a poll of a
\* dashboard with this address writes
reads_of_written(address) ==
  {r \in {"header", "api_status", "account_info", "deployed_contracts", "network_stats"} :
     address = NoAddress => r \notin {"account_info", "deployed_contracts"}}

\* C14: with the worker and the display interleaved arbitrarily, the fields the
\* display reads in one pass all come from one poll cycle, the worker publishing a
\* poll's result in one step. Stated for the passes that read nothing of the
\* snapshot __init__ made: when the display has finished a pass and every field
\* it read had been written by a poll, all of them were written by the same poll.
C14_DisplayReadsOnePollCycle ==
  (/\ pc["display"] = "input"
   /\ \A r \in reads_of_written(dashboard.address) : shown[r] >= 1)
    => \A r1, r2 \in reads_of_written(dashboard.address) : shown[r1] = shown[r2]

\* C15: in the dashboard the account info and the deployed-contract list that the
\* display reads are those of the most recent successful fetch: once a fetch has
\* succeeded, a poll whose fetch fails leaves the fetched value in place.
C15_FailedFetchKeepsLastValues ==
  /\ observed.fetched.account_info.ok =>
       dashboard.current_data.account_info = observed.fetched.account_info.value
  /\ observed.fetched.deployed_contracts.ok =>
       dashboard.current_data.deployed_contracts =
         observed.fetched.deployed_contracts.value

\* the worker of the dashboard has been started and stop_dashboard has cleared
\* the flag
dashboard_stopped == ~dashboard.is_running /\ pc["worker"] # "idle"

\* the worker of the monitor has been started and stop_monitoring has cleared
\* the flag
monitor_stopped == ~monitor.is_monitoring /\ pc["monitor_worker"] # "idle"

\* C16: cancellation of a polling worker is cooperative: once stop_dashboard or
\* stop_monitoring has cleared the running flag, the worker begins no new poll
\* iteration (from the head of its loop it only leaves the loop), and it finishes
\* the iteration in flight, if any, and terminates.
C16_StoppedWorkerTerminates ==
  /\ [][(dashboard_stopped /\ pc["worker"] = "loop")
          => pc'["worker"] \in {"loop", "done"}]_vars
  /\ [][(monitor_stopped /\ pc["monitor_worker"] = "loop")
          => pc'["monitor_worker"] \in {"loop", "done"}]_vars
  /\ dashboard_stopped ~> (pc["worker"] = "done")
  /\ monitor_stopped ~> (pc["monitor_worker"] = "done")

\* what wait_for_transaction has done so far agrees with the polls it made
wait_agrees_with_polls ==
  /\ \A i \in DOMAIN wait.polls :
       ends_wait(wait.polls[i]) =>
         /\ i = Len(wait.polls)
         /\ pc["waiter"] = "done"
         /\ wait.returned # None
         /\ observed_status(wait.returned) = wait.polls[i]
  /\ (pc["waiter"] = "done" /\ wait.returned = None) =>
       now - wait.start_time >= wait.timeout
  /\ wait.returned # None =>
       /\ pc["waiter"] = "done"
       /\ wait.polls # <<>>
       /\ ends_wait(wait.polls[Len(wait.polls)])

\* C17: wait_for_transaction always terminates; it returns the transaction info
\* as soon as a poll observes status success or error, and returns None only
\* once the timeout has elapsed without such a poll; a poll that observes
\* another status or whose fetch fails never ends the wait.
C17_WaitForTransactionTerminates ==
  /\ [](wait_agrees_with_polls)
  /\ (pc["waiter"] # "idle") ~> (pc["waiter"] = "done")

-----------------------------------------------------------------------------
(* Properties of serialisation and of the deploy command (checked under SpecFn) *)

\* the values of the str objects of a Python list, in order
str_values(py_list) == [i \in DOMAIN py_list.items |-> py_list.items[i].value]

C22_DeployOnlyAfterValidation ==
  call.op = "run_command_deploy" =>
    LET steps == call.result.steps
        deployed == \E i \in DOMAIN steps : steps[i] = "deploy_conxian"
        refused == \/ ~call.answers.is_valid
                   \/ /\ ~call.options.skip_checks
                      /\ ~call.answers.pre_checks
                      /\ ~call.options.force
    IN  /\ deployed =>
             /\ call.answers.is_valid
             /\ steps[1] = "validate_config"
             /\ \/ call.options.skip_checks
                \/ call.options.force
                \/ call.answers.pre_checks
        /\ refused =>
             /\ ~deployed
             /\ ~call.result.outcome.raised
             /\ call.result.outcome.value = 1

\* the keywords of the testing phase, the last of priority_order
testing_keywords ==
  << <<"t","e","s","t">>, <<"m","o","c","k">>, <<"f","a","k","e">>,
     <<"s","i","m","u","l","a","t","o","r">>, <<"d","e","b","u","g">> >>

\* the keywords of the phases before the testing phase
earlier_phase_keywords ==
  SelectSeq(priority_order, LAMBDA k : k \notin Range(testing_keywords))

\* the name holds a testing keyword
is_testing_contract(c) == any_pattern_in(testing_keywords, lower(c.name))

\* C27: testing contracts are deployed last among the phases: in the sorter's
\* output a contract whose name contains a testing keyword never precedes a
\* contract whose name contains no testing keyword and matches a keyword of an
\* earlier phase.
C27_TestingContractsLast ==
  call.op = "sort_contracts_by_generic_dependencies" =>
    \A i, j \in DOMAIN call.result :
      (/\ i < j
       /\ is_testing_contract(call.result[i])
       /\ ~is_testing_contract(call.result[j]))
        => ~any_pattern_in(earlier_phase_keywords, lower(call.result[j].name))

\* C27, amended: in the sorter's output a contract whose name contains a testing
\* keyword and no keyword of an earlier phase never precedes a contract whose
\* name contains no testing keyword and matches a keyword of an earlier phase; a
\* name with keywords of both kinds takes the priority of its earlier keyword.
C27_PurelyTestingContractsLast ==
  call.op = "sort_contracts_by_generic_dependencies" =>
    /\ \A i, j \in DOMAIN call.result :
         (/\ i < j
          /\ is_testing_contract(call.result[i])
          /\ ~any_pattern_in(earlier_phase_keywords, lower(call.result[i].name))
          /\ ~is_testing_contract(call.result[j]))
           => ~any_pattern_in(earlier_phase_keywords, lower(call.result[j].name))
    /\ \A i \in DOMAIN call.result :
         any_pattern_in(earlier_phase_keywords, lower(call.result[i].name)) =>
           get_priority(call.result[i]) < Len(earlier_phase_keywords)

\* a purely testing contract handed in first leaves after a token contract
C27_Witness ==
  /\ call.op = "sort_contracts_by_generic_dependencies"
  /\ Len(call.contracts) = 2
  /\ Len(call.result) = 2
  /\ call.contracts[1].name = N_debug_shim
  /\ call.result[1].name = N_cxd_token
  /\ call.result[2].name = N_debug_shim

matching_patterns(content) ==
  {i \in DOMAIN content.toml.regex_matches : content.toml.regex_matches[i] # <<>>}

\* C25: in the regex fallback parse of the manifest the descriptors returned come
\* from one pattern only, the first in list order with at least one match in the
\* file: they are the matches of that pattern whose file exists, in order, and
\* what only a later pattern matches is not among them.
C25_FirstMatchingPatternOnly ==
  call.op = "parse_clarinet_toml_manually" =>
    LET matches == call.content.toml.regex_matches
        hits == matching_patterns(call.content)
    IN  IF hits = {} THEN call.result = <<>>
        ELSE LET first == matches[Least(hits)]
             IN  /\ \A k \in DOMAIN call.result :
                      \E n \in DOMAIN first :
                        /\ call.result[k].name = first[n].name
                        /\ call.result[k].path = first[n].path
                 /\ \A n \in DOMAIN first :
                      path_exists(call.content, first[n].path) =>
                        \E k \in DOMAIN call.result :
                          call.result[k].name = first[n].name
                 /\ \A j \in hits \ {Least(hits)} :
                      \A n \in DOMAIN matches[j] :
                        matches[j][n] \notin Range(first) =>
                          \A k \in DOMAIN call.result :
                            call.result[k].name # matches[j][n].name

\* the first pattern matches one entry and the third another, both files exist,
\* and only the first one's is returned
C25_Witness ==
  /\ call.op = "parse_clarinet_toml_manually"
  /\ Len(call.content.toml.regex_matches[1]) = 1
  /\ Len(call.content.toml.regex_matches[3]) = 1
  /\ call.content.toml.regex_matches[1] # call.content.toml.regex_matches[3]
  /\ \A n \in DOMAIN call.content.toml.regex_matches[3] :
       path_exists(call.content, call.content.toml.regex_matches[3][n].path)
  /\ Len(call.result) = 1
  /\ call.result[1].name = call.content.toml.regex_matches[1][1].name

-----------------------------------------------------------------------------
(* Properties of the polling loops after an error (checked under SpecPolling) *)

\* an error was raised in the iteration the dashboard's worker is in: its
\* check_api_status has just failed
dashboard_iteration_erred ==
  /\ pc["worker"] = "account_info"
  /\ dashboard.current_data.api_status.status = "offline"

\* an error was raised in the iteration the monitor's worker is in and has
\* reached the handler of the loop
monitor_iteration_erred == pc["monitor_worker"] = monitoring_error_handler

\* C26: an error raised during one iteration of a background monitoring loop
\* never terminates the worker: unless the running flag is cleared, the worker
\* comes back to the head of its loop again and again, so polling continues
\* indefinitely.
C26_ErrorNeverEndsPolling ==
  /\ [](dashboard_iteration_erred =>
          (<>(~dashboard.is_running) \/ []<>(pc["worker"] = "loop")))
  /\ [](monitor_iteration_erred =>
          (<>(~monitor.is_monitoring) \/ []<>(pc["monitor_worker"] = "loop")))

\* C29: in the deployment monitor one poll appends at most one record to the
\* deployment history, and only when the account nonce it observed is greater
\* than the number of records; the number of records is at most the largest
\* nonce observed so far; and a poll that observes no nonce (no address
\* configured or a failed fetch) leaves the history unchanged.
C29_OneRecordPerPoll ==
  /\ [][MonitorCheckDeployments =>
          LET before == monitor.deployment_history
              after == monitor'.deployment_history
          IN  /\ Len(after) <= Len(before) + 1
              /\ SubSeq(after, 1, Len(before)) = before
              /\ after # before =>
                   /\ observed'.nonce.seen
                   /\ observed'.nonce.last > Len(before)
              /\ ~observed'.nonce.seen => after = before
     ]_vars
  /\ [](Len(monitor.deployment_history) <= observed.nonce.largest)

\* a poll has observed nonce 2 while the history was empty and has appended one
\* record, not two
C29_Witness ==
  /\ pc["monitor_worker"] = "check_health"
  /\ observed.nonce.seen
  /\ observed.nonce.last = Len(monitor.deployment_history) + 1
  /\ Len(monitor.deployment_history) = 1
  /\ monitor.deployment_history[1].nonce = observed.nonce.last

-----------------------------------------------------------------------------
(* Properties of the discovery cache and of directory changes (checked under
   SpecFiles) *)

\* C23: the discovery cache is keyed by directory. A discovery in the directory
\* of the discovery before it, with no directory-change event in between (the
\* working directory is the state's current directory and the cache holds a list
\* for it), returns the cached list without rescanning, whatever the files hold
\* now; a discovery that detects a change of working directory, and the discovery
\* of handle_directory_change, rescan: they return what the files hold now.
C23_CacheKeyedByDirectory ==
  [][/\ (DetectAndAnalyze /\ error' = NoError) =>
          /\ (cwd = state.current_directory /\ cwd \in DOMAIN contract_cache) =>
               result'.detection.contracts = contract_cache[cwd]
          /\ cwd # state.current_directory =>
               result'.detection.contracts = detect_contracts(use_conxian_mode, fs[cwd])
     /\ \A d \in Dirs :
          (HandleDirectoryChange(d) /\ error' = NoError) =>
            result'.detection.contracts = detect_contracts(use_conxian_mode, fs[cwd])
    ]_vars

\* a discovery has returned the list cached for the working directory although
\* the files were edited since and a rescan would give another list
C23_Witness ==
  /\ error = NoError
  /\ result # NoResult
  /\ cwd = state.current_directory
  /\ cwd \in DOMAIN contract_cache
  /\ result.detection.directory = cwd
  /\ result.detection.contracts = contract_cache[cwd]
  /\ contract_cache[cwd] # detect_contracts(use_conxian_mode, fs[cwd])
  /\ Len(state.directory_history) >= 1

\* C24: handle_directory_change(new_directory) runs detection again in
\* new_directory: the directory of the detection it returns is new_directory, and
\* when it returns the state's current directory is new_directory and its previous
\* directory is the directory that was current before the call.
C24_DirectoryChangeDetectsInNewDirectory ==
  [][\A new_directory \in Dirs :
       (HandleDirectoryChange(new_directory) /\ error' = NoError) =>
         /\ result'.detection.directory = new_directory
         /\ state'.current_directory = new_directory
         /\ state'.previous_directory = state.current_directory
    ]_vars

-----------------------------------------------------------------------------
(* Properties of the discovery cache over sequences of calls (checked under Spec) *)

\* C28: after any sequence of detect_and_analyze and handle_directory_change
\* calls interleaved with changes of the working directory, whenever a call has
\* returned the discovery cache holds at most one entry, and the key of that
\* entry is the state's current directory.
C28_CacheHoldsCurrentDirectoryOnly ==
  (result # NoResult /\ error = NoError) =>
    /\ Cardinality(DOMAIN contract_cache) <= 1
    /\ \A key \in DOMAIN contract_cache : key = state.current_directory

\* calls have returned after two changes of directory, the working directory was
\* changed since, and the cache holds the list of the state's current directory
C28_Witness ==
  /\ result # NoResult
  /\ error = NoError
  /\ Len(state.directory_history) >= 2
  /\ cwd # state.current_directory
  /\ DOMAIN contract_cache = {state.current_directory}
  /\ contract_cache[state.current_directory] # <<>>

====
